---- MODULE Spec2Model ----
(***************************************************************************)
(* Model of the AHP decision tool (src/src/App.js): the React state of     *)
(* App, the handlers of Step1..Step5 and the calculation helpers.          *)
(*                                                                         *)
(* JavaScript numbers are modelled as extended rationals <<n, d>>:         *)
(*   d > 0, gcd(n, d) = 1   the finite number n/d                          *)
(*   <<1, 0>>, <<-1, 0>>    +Infinity, -Infinity                           *)
(*   <<0, 0>>               NaN                                            *)
(* Arithmetic is exact (no floating-point rounding, no signed zero).       *)
(* JavaScript strings are sequences of one-character strings.              *)
(***************************************************************************)
EXTENDS Integers, Sequences, FiniteSets, TLC

\* ------------------------------------------------------------------------
\* Evaluation helpers: a value computed once and used many times, and a
\* sequence built element by element.
\* ------------------------------------------------------------------------

\* F(e), with e evaluated once
Bind(e, F(_)) ==
    CHOOSE r \in {F(v) : v \in {e}} : TRUE

\* <<F(1), ..., F(n)>>
Vec(n, F(_)) ==
    [i \in 1..n |-> F(i)] \o <<>>

\* ------------------------------------------------------------------------
\* Numbers
\* ------------------------------------------------------------------------

Num == Int \X Int

Abs(a) ==
    IF a < 0 THEN -a ELSE a

Sgn(a) ==
    IF a > 0 THEN 1 ELSE IF a < 0 THEN -1 ELSE 0

Gcd[a \in Nat, b \in Nat] ==
    IF b = 0 THEN a ELSE Gcd[b, a % b]

NaN == <<0, 0>>
PosInf == <<1, 0>>
NegInf == <<-1, 0>>

\* the number n/d (d # 0) in lowest terms with a positive denominator
QF[n \in Int, d \in Int] ==
    LET g == Gcd[Abs(n), Abs(d)]
    IN  IF d > 0 THEN <<n \div g, d \div g>> ELSE <<(-n) \div g, (-d) \div g>>

Q(n, d) == QF[n, d]

Z(n) == <<n, 1>>

IsNaN(a) == a = NaN
IsFinite(a) == a[2] > 0
NSign(a) == Sgn(a[1])

NAddF[a \in Num, b \in Num] ==
    IF IsNaN(a) \/ IsNaN(b) THEN NaN
    ELSE IF ~IsFinite(a) THEN (IF ~IsFinite(b) /\ b # a THEN NaN ELSE a)
    ELSE IF ~IsFinite(b) THEN b
    ELSE LET g == Gcd[a[2], b[2]]
         IN  Q(a[1] * (b[2] \div g) + b[1] * (a[2] \div g), (a[2] \div g) * b[2])

\* a + b
NAdd(a, b) == NAddF[a, b]

NNeg(a) == Bind(a, LAMBDA v : <<-v[1], v[2]>>)

\* a - b
NSub(a, b) == NAddF[a, NNeg(b)]

NMulF[a \in Num, b \in Num] ==
    IF IsNaN(a) \/ IsNaN(b) THEN NaN
    ELSE IF ~IsFinite(a) \/ ~IsFinite(b)
         THEN (IF NSign(a) * NSign(b) = 0 THEN NaN ELSE <<NSign(a) * NSign(b), 0>>)
    ELSE LET g1 == Gcd[Abs(a[1]), b[2]]
             g2 == Gcd[Abs(b[1]), a[2]]
         IN  Q((a[1] \div g1) * (b[1] \div g2), (a[2] \div g2) * (b[2] \div g1))

\* a * b
NMul(a, b) == NMulF[a, b]

NDivF[a \in Num, b \in Num] ==
    IF IsNaN(a) \/ IsNaN(b) THEN NaN
    ELSE IF ~IsFinite(b) THEN (IF IsFinite(a) THEN Z(0) ELSE NaN)
    ELSE IF b[1] = 0 THEN (IF NSign(a) = 0 THEN NaN ELSE <<NSign(a), 0>>)
    ELSE IF ~IsFinite(a) THEN <<NSign(a) * NSign(b), 0>>
    ELSE NMulF[a, Q(b[2], b[1])]

\* a / b: x/0 is +-Infinity, 0/0 and Infinity/Infinity are NaN
NDiv(a, b) == NDivF[a, b]

\* the sum of a sequence of numbers, left to right from 0
NSumF[s \in Seq(Num)] ==
    IF s = <<>> THEN Z(0) ELSE NAddF[NSumF[SubSeq(s, 1, Len(s) - 1)], s[Len(s)]]

NSum(s) == NSumF[s]

\* ------------------------------------------------------------------------
\* Wide numbers: the same extended rationals with numerator and denominator
\* of any size, <<sign, num, den>>, num and den naturals written as sequences
\* of base-10000 digits, least significant first, without leading zeros
\* (<<>> is 0).  den = <<>> is a non-finite number: sign 0 is NaN, sign 1 and
\* -1 are +Infinity and -Infinity.  A wide number is not kept in lowest terms.
\* ------------------------------------------------------------------------

BigBase == 10000

Digits == Seq(Nat)

WideNum == {-1, 0, 1} \X Digits \X Digits

BStrip[a \in Digits] ==
    IF a # <<>> /\ a[Len(a)] = 0 THEN BStrip[SubSeq(a, 1, Len(a) - 1)] ELSE a

BFromNat[n \in Nat] ==
    IF n = 0 THEN <<>> ELSE <<n % BigBase>> \o BFromNat[n \div BigBase]

BAddC[a \in Digits, b \in Digits, c \in Nat] ==
    IF a = <<>> /\ b = <<>> THEN (IF c = 0 THEN <<>> ELSE <<c>>)
    ELSE LET t == (IF a = <<>> THEN 0 ELSE a[1]) + (IF b = <<>> THEN 0 ELSE b[1]) + c
         IN  <<t % BigBase>> \o
             BAddC[IF a = <<>> THEN a ELSE Tail(a), IF b = <<>> THEN b ELSE Tail(b),
                   t \div BigBase]

BAdd(a, b) == BAddC[a, b, 0]

\* a - b for a >= b
BSubC[a \in Digits, b \in Digits, c \in Nat] ==
    IF a = <<>> THEN <<>>
    ELSE LET t == a[1] - (IF b = <<>> THEN 0 ELSE b[1]) - c
         IN  <<(t + BigBase) % BigBase>> \o
             BSubC[Tail(a), IF b = <<>> THEN b ELSE Tail(b), IF t < 0 THEN 1 ELSE 0]

BSub(a, b) == BStrip[BSubC[a, b, 0]]

\* a * k + c for one digit k
BMulDigitC[a \in Digits, k \in Nat, c \in Nat] ==
    IF a = <<>> THEN (IF c = 0 THEN <<>> ELSE <<c>>)
    ELSE LET t == a[1] * k + c
         IN  <<t % BigBase>> \o BMulDigitC[Tail(a), k, t \div BigBase]

BMulF[a \in Digits, b \in Digits] ==
    IF a = <<>> \/ b = <<>> THEN <<>>
    ELSE BAddC[BStrip[BMulDigitC[a, b[1], 0]], BStrip[<<0>> \o BMulF[a, Tail(b)]], 0]

BMul(a, b) == BMulF[a, b]

\* -1, 0, 1 as a < b, a = b, a > b
BCmp[a \in Digits, b \in Digits] ==
    IF Len(a) # Len(b) THEN (IF Len(a) < Len(b) THEN -1 ELSE 1)
    ELSE IF a = <<>> THEN 0
    ELSE IF a[Len(a)] # b[Len(b)] THEN (IF a[Len(a)] < b[Len(b)] THEN -1 ELSE 1)
    ELSE BCmp[SubSeq(a, 1, Len(a) - 1), SubSeq(b, 1, Len(b) - 1)]

WNaN == <<0, <<>>, <<>>>>

\* the wide number of a number
WideF[a \in Num] == <<Sgn(a[1]), BFromNat[Abs(a[1])], BFromNat[a[2]]>>

Wide(a) == WideF[a]

WIsNaN(a) == a[1] = 0 /\ a[3] = <<>>
WIsFinite(a) == a[3] # <<>>

\* the signed sum s1*m1 + s2*m2 of two magnitudes, as <<sign, magnitude>>
SignedAdd[s1 \in Int, m1 \in Digits, s2 \in Int, m2 \in Digits] ==
    IF s1 = 0 THEN <<s2, m2>>
    ELSE IF s2 = 0 THEN <<s1, m1>>
    ELSE IF s1 = s2 THEN <<s1, BAdd(m1, m2)>>
    ELSE LET c == BCmp[m1, m2]
         IN  IF c = 0 THEN <<0, <<>>>>
             ELSE IF c > 0 THEN <<s1, BSub(m1, m2)>> ELSE <<s2, BSub(m2, m1)>>

WAddF[a \in WideNum, b \in WideNum] ==
    IF WIsNaN(a) \/ WIsNaN(b) THEN WNaN
    ELSE IF ~WIsFinite(a) THEN (IF ~WIsFinite(b) /\ b[1] # a[1] THEN WNaN ELSE a)
    ELSE IF ~WIsFinite(b) THEN b
    ELSE Bind(SignedAdd[a[1], BMul(a[2], b[3]), b[1], BMul(b[2], a[3])],
              LAMBDA r : <<r[1], r[2], BMul(a[3], b[3])>>)

WAdd(a, b) == WAddF[a, b]

WNeg(a) == Bind(a, LAMBDA v : <<-v[1], v[2], v[3]>>)

WSub(a, b) == WAddF[a, WNeg(b)]

WDivF[a \in WideNum, b \in WideNum] ==
    IF WIsNaN(a) \/ WIsNaN(b) THEN WNaN
    ELSE IF ~WIsFinite(b) THEN (IF WIsFinite(a) THEN <<0, <<>>, <<1>>>> ELSE WNaN)
    ELSE IF b[1] = 0 THEN (IF a[1] = 0 THEN WNaN ELSE <<a[1], <<1>>, <<>>>>)
    ELSE IF ~WIsFinite(a) THEN <<a[1] * b[1], <<1>>, <<>>>>
    ELSE IF a[1] = 0 THEN <<0, <<>>, <<1>>>>
    ELSE <<a[1] * b[1], BMul(a[2], b[3]), BMul(a[3], b[2])>>

WDiv(a, b) == WDivF[a, b]

WLtF[a \in WideNum, b \in WideNum] ==
    IF WIsNaN(a) \/ WIsNaN(b) THEN FALSE
    ELSE IF ~WIsFinite(a) \/ ~WIsFinite(b)
         THEN (IF ~WIsFinite(a) /\ ~WIsFinite(b) /\ a[1] = b[1] THEN FALSE
               ELSE IF ~WIsFinite(a) THEN a[1] < 0 ELSE b[1] > 0)
    ELSE IF a[1] # b[1] THEN a[1] < b[1]
    ELSE IF a[1] = 0 THEN FALSE
    ELSE BCmp[BMul(a[2], b[3]), BMul(b[2], a[3])] = -a[1]

\* a < b (false when either is NaN)
WLt(a, b) == WLtF[a, b]

\* a < b for numbers; the comparison is made on wide numbers
NLtF[a \in Num, b \in Num] ==
    IF IsNaN(a) \/ IsNaN(b) THEN FALSE
    ELSE IF ~IsFinite(a) \/ ~IsFinite(b)
         THEN (IF a = b THEN FALSE
               ELSE IF a = NegInf \/ b = PosInf THEN TRUE ELSE FALSE)
    ELSE WLtF[WideF[a], WideF[b]]

\* a < b (false when either is NaN)
NLt(a, b) == NLtF[a, b]

\* a <= b (false when either is NaN)
NLe(a, b) == Bind(<<a, b>>, LAMBDA p : ~IsNaN(p[1]) /\ ~IsNaN(p[2]) /\ ~NLtF[p[2], p[1]])

\* a = b as numbers (false when either is NaN)
WEq(a, b) ==
    Bind(<<a, b>>, LAMBDA p :
        ~WIsNaN(p[1]) /\ ~WIsNaN(p[2]) /\ ~WLtF[p[1], p[2]] /\ ~WLtF[p[2], p[1]])

\* the sum of a sequence of numbers, left to right from 0, as a wide number
WSumF[s \in Seq(Num)] ==
    IF s = <<>> THEN Wide(Z(0)) ELSE WAddF[WSumF[SubSeq(s, 1, Len(s) - 1)], Wide(s[Len(s)])]

WSum(s) == WSumF[s]

\* ------------------------------------------------------------------------
\* AHP calculation helpers
\* ------------------------------------------------------------------------

\* the sums of the columns of an n x n matrix
ColumnSums(m, n) ==
    Vec(n, LAMBDA j : NSum(Vec(n, LAMBDA i : m[i][j])))

\* a variant that divides a zero-sum column as well
calculateWeightsNoGuard(pairwiseMatrix) ==
    Bind(pairwiseMatrix, LAMBDA pm :
    IF Len(pm) = 0 THEN <<>>
    ELSE Bind(Len(pm), LAMBDA numCriteria :
         Bind(ColumnSums(pm, numCriteria), LAMBDA columnSums :
         Vec(numCriteria, LAMBDA i :
             NDiv(NSum(Vec(numCriteria, LAMBDA j : NDiv(pm[i][j], columnSums[j]))),
                  Z(numCriteria))))))

\* a variant that averages over the rows of a column, indices swapped
calculateWeightsColumnMean(pairwiseMatrix) ==
    Bind(pairwiseMatrix, LAMBDA pm :
    IF Len(pm) = 0 THEN <<>>
    ELSE Bind(Len(pm), LAMBDA numCriteria :
         Bind(ColumnSums(pm, numCriteria), LAMBDA columnSums :
         Vec(numCriteria, LAMBDA i :
             NDiv(NSum(Vec(numCriteria, LAMBDA j :
                      IF columnSums[i] = Z(0) THEN pm[j][i]
                      ELSE NDiv(pm[j][i], columnSums[i]))),
                  Z(numCriteria))))))

\* a variant that returns the row sums instead of the row averages
calculateWeightsRowSum(pairwiseMatrix) ==
    Bind(pairwiseMatrix, LAMBDA pm :
    IF Len(pm) = 0 THEN <<>>
    ELSE Bind(Len(pm), LAMBDA numCriteria :
         Bind(ColumnSums(pm, numCriteria), LAMBDA columnSums :
         Vec(numCriteria, LAMBDA i :
             NSum(Vec(numCriteria, LAMBDA j :
                 IF columnSums[j] = Z(0) THEN pm[i][j]
                 ELSE NDiv(pm[i][j], columnSums[j])))))))

calculateWeights(pairwiseMatrix) ==
    Bind(pairwiseMatrix, LAMBDA pm :
    IF Len(pm) = 0 THEN <<>>
    ELSE Bind(Len(pm), LAMBDA numCriteria :
         Bind(ColumnSums(pm, numCriteria), LAMBDA columnSums :
         Bind(Vec(numCriteria, LAMBDA i : Vec(numCriteria, LAMBDA j :
                  IF columnSums[j] = Z(0) THEN pm[i][j]
                  ELSE NDiv(pm[i][j], columnSums[j]))), LAMBDA normalizedMatrix :
         Vec(numCriteria, LAMBDA i :
             NDiv(NSum(normalizedMatrix[i]), Z(numCriteria)))))))

normalizeMatrix(matrix) ==
    Bind(matrix, LAMBDA m :
    Bind(Len(m), LAMBDA numCriteria :
    Bind(ColumnSums(m, numCriteria), LAMBDA columnSums :
    Vec(numCriteria, LAMBDA i : Vec(numCriteria, LAMBDA j :
        NDiv(m[i][j], columnSums[j]))))))

\* a variant of the table read one place too far
riMapShifted == <<0, 58, 90, 112, 124, 132, 141, 145, 149, 149>>

\* Saaty's random index in hundredths: riMap[numCriteria-1]
riMap == <<0, 0, 58, 90, 112, 124, 132, 141, 145, 149>>

\* weights[i] as a number: NaN when the array has no such entry (i from 1)
WeightOrNaN(w, i) == IF i <= Len(w) THEN w[i] ELSE NaN

\* a variant without the early return for numCriteria <= 2
calculateConsistencyNoSmallCase(pairwiseMatrix, weightsArg) ==
    Bind(<<pairwiseMatrix, weightsArg>>, LAMBDA args :
    Bind(Len(args[1]), LAMBDA numCriteria :
         Bind(Vec(numCriteria, LAMBDA i :
                  NSum(Vec(numCriteria, LAMBDA j : NMul(args[1][i][j], WeightOrNaN(args[2], j))))),
              LAMBDA weightedSumVector :
         Bind(Vec(numCriteria, LAMBDA i :
                  IF WeightOrNaN(args[2], i) # Z(0)
                  THEN NDiv(weightedSumVector[i], WeightOrNaN(args[2], i))
                  ELSE Z(0)),
              LAMBDA consistencyVector :
         Bind(WDiv(WSum(consistencyVector), Wide(Z(numCriteria))), LAMBDA lambdaMax :
         Bind(WDiv(WSub(lambdaMax, Wide(Z(numCriteria))), Wide(Z(numCriteria - 1))),
              LAMBDA ci :
         Bind(IF numCriteria >= 1 /\ numCriteria <= Len(riMap) /\ riMap[numCriteria] # 0
              THEN Q(riMap[numCriteria], 100) ELSE Q(149, 100), LAMBDA ri :
         Bind(IF ri = Z(0) THEN Wide(Z(0)) ELSE WDiv(ci, Wide(ri)), LAMBDA cr :
              [cr |-> cr, isConsistent |-> WLt(cr, Wide(Q(1, 10)))]))))))))

calculateConsistency(pairwiseMatrix, weightsArg) ==
    Bind(<<pairwiseMatrix, weightsArg>>, LAMBDA args :
    Bind(Len(args[1]), LAMBDA numCriteria :
    IF numCriteria <= 2 THEN [cr |-> Wide(Z(0)), isConsistent |-> TRUE]
    ELSE Bind(Vec(numCriteria, LAMBDA i :
                  NSum(Vec(numCriteria, LAMBDA j : NMul(args[1][i][j], WeightOrNaN(args[2], j))))),
              LAMBDA weightedSumVector :
         Bind(Vec(numCriteria, LAMBDA i :
                  IF WeightOrNaN(args[2], i) # Z(0)
                  THEN NDiv(weightedSumVector[i], WeightOrNaN(args[2], i))
                  ELSE Z(0)),
              LAMBDA consistencyVector :
         Bind(WDiv(WSum(consistencyVector), Wide(Z(numCriteria))), LAMBDA lambdaMax :
         Bind(WDiv(WSub(lambdaMax, Wide(Z(numCriteria))), Wide(Z(numCriteria - 1))),
              LAMBDA ci :
         Bind(IF numCriteria >= 1 /\ numCriteria <= Len(riMap) /\ riMap[numCriteria] # 0
              THEN Q(riMap[numCriteria], 100) ELSE Q(149, 100), LAMBDA ri :
         Bind(IF ri = Z(0) THEN Wide(Z(0)) ELSE WDiv(ci, Wide(ri)), LAMBDA cr :
              [cr |-> cr, isConsistent |-> WLt(cr, Wide(Q(1, 10)))]))))))))

checkConsistency(matrix) ==
    Bind(matrix, LAMBDA m :
        calculateConsistency(m, calculateWeights(normalizeMatrix(m))))

\* ------------------------------------------------------------------------
\* Strings
\* ------------------------------------------------------------------------

IsSpace(c) == c \in {" ", "\t", "\n"}

DigitChars == <<"0", "1", "2", "3", "4", "5", "6", "7", "8", "9">>

IsDigit(c) == \E k \in 1..10 : DigitChars[k] = c

DigitValue(c) == (CHOOSE k \in 1..10 : DigitChars[k] = c) - 1

\* String.prototype.trim
TrimStartF[s \in Seq(STRING)] ==
    IF s # <<>> /\ IsSpace(s[1]) THEN TrimStartF[Tail(s)] ELSE s

TrimEndF[s \in Seq(STRING)] ==
    IF s # <<>> /\ IsSpace(s[Len(s)]) THEN TrimEndF[SubSeq(s, 1, Len(s) - 1)] ELSE s

Trim(s) == TrimEndF[TrimStartF[s]]

\* the names and formulas of the initial state (App.js 1039-1068)
sRisk == <<"R", "i", "s", "k">>
sSWEffort == <<"S", "W", " ", "E", "f", "f", "o", "r", "t", "/", "S", "c", "h", "e", "d", "u", "l", "e">>
sHWCosts == <<"H", "W", " ", "C", "o", "s", "t", "s">>
sFutureAdaptability == <<"F", "u", "t", "u", "r", "e", " ", "A", "d", "a", "p", "t", "a", "b", "i", "l", "i", "t", "y">>
sDualPrimary == <<"D", "u", "a", "l", " ", "P", "r", "i", "m", "a", "r", "y">>
sCompressedDual == <<"C", "o", "m", "p", "r", "e", "s", "s", "e", "d", " ", "D", "u", "a", "l", " ", "P", "r", "i", "m", "a", "r", "y">>
sCompressedAsym == <<"C", "o", "m", "p", "r", "e", "s", "s", "e", "d", " ", "A", "s", "y", "m", "m", "e", "t", "r", "i", "c", " ", "P", "r", "i", "m", "a", "r", "y">>
sTeleAssisted == <<"T", "e", "l", "e", "-", "a", "s", "s", "i", "s", "t", "e", "d", " ", "S", "e", "c", "o", "n", "d", "a", "r", "y">>
sLow == <<"L", "o", "w">>
sMedium == <<"M", "e", "d", "i", "u", "m">>
sHigh == <<"H", "i", "g", "h">>
sHWCostsFormula == <<"1", "0", "0", " ", "*", " ", "(", "4", "0", "0", "0", "0", "0", " ", "-", " ", "x", ")", " ", "/", " ", "(", "4", "0", "0", "0", "0", "0", " ", "-", " ", "3", "0", "0", "0", "0", "0", ")">>

\* ------------------------------------------------------------------------
\* JavaScript values other than numbers
\* ------------------------------------------------------------------------

Undefined == [t |-> "undefined"]
StrV(s) == [t |-> "string", s |-> s]
NumV(n) == [t |-> "number", n |-> n]
FunctionV == [t |-> "function"]

\* 10^k
Pow10[k \in Nat] ==
    IF k = 0 THEN 1 ELSE 10 * Pow10[k - 1]

\* the run of digits of s from position i: <<value, number of digits>>
ScanDigits[s \in Seq(STRING), i \in Nat, acc \in Nat, cnt \in Nat] ==
    IF i <= Len(s) /\ IsDigit(s[i])
    THEN ScanDigits[s, i + 1, 10 * acc + DigitValue(s[i]), cnt + 1]
    ELSE <<acc, cnt>>

sInfinity == <<"I", "n", "f", "i", "n", "i", "t", "y">>

HasPrefix(s, p) ==
    Len(s) >= Len(p) /\ SubSeq(s, 1, Len(p)) = p

\* parseFloat of a string: leading white space, a sign, then Infinity or the
\* longest decimal literal (digits, a fraction, an exponent); NaN without one
ParseFloatStr(str) ==
    Bind(TrimStartF[str], LAMBDA t :
    Bind(IF t # <<>> /\ t[1] \in {"+", "-"} THEN 1 ELSE 0, LAMBDA sg :
    Bind(IF sg = 1 /\ t[1] = "-" THEN -1 ELSE 1, LAMBDA sign :
    Bind(SubSeq(t, sg + 1, Len(t)), LAMBDA u :
    IF HasPrefix(u, sInfinity) THEN <<sign, 0>>
    ELSE Bind(ScanDigits[u, 1, 0, 0], LAMBDA ip :
         Bind(IF ip[2] < Len(u) /\ u[ip[2] + 1] = "."
              THEN ScanDigits[u, ip[2] + 2, 0, 0] ELSE <<0, 0>>, LAMBDA fp :
         IF ip[2] = 0 /\ fp[2] = 0 THEN NaN
         ELSE Bind(ip[2] + (IF ip[2] < Len(u) /\ u[ip[2] + 1] = "."
                            THEN 1 + fp[2] ELSE 0) + 1, LAMBDA e :
              Bind(IF e <= Len(u) /\ u[e] \in {"e", "E"}
                   THEN (IF e + 1 <= Len(u) /\ u[e + 1] \in {"+", "-"}
                         THEN <<IF u[e + 1] = "-" THEN -1 ELSE 1,
                                ScanDigits[u, e + 2, 0, 0]>>
                         ELSE <<1, ScanDigits[u, e + 1, 0, 0]>>)
                   ELSE <<1, <<0, 0>>>>, LAMBDA ex :
              Bind(NAdd(Z(ip[1]), Q(fp[1], Pow10[fp[2]])), LAMBDA mant :
              Bind(IF ex[2][2] = 0 THEN mant
                   ELSE IF ex[1] = 1 THEN NMul(mant, Z(Pow10[ex[2][1]]))
                   ELSE NDiv(mant, Z(Pow10[ex[2][1]])), LAMBDA mag :
              IF sign = 1 THEN mag ELSE NNeg(mag)))))))))))

\* parseFloat of any value: the value is first converted to a string
parseFloat(v) ==
    Bind(v, LAMBDA jv :
    IF jv.t = "number" THEN jv.n
    ELSE IF jv.t = "string" THEN ParseFloatStr(jv.s)
    ELSE NaN)

\* s[key] for a string s: a character for an index, the length, a method,
\* undefined for any other key
sLength == <<"l", "e", "n", "g", "t", "h">>
sTrim == <<"t", "r", "i", "m">>
sAt == <<"a", "t">>

IsIndexKey(key) ==
    /\ key # <<>>
    /\ \A k \in 1..Len(key) : IsDigit(key[k])
    /\ (Len(key) = 1 \/ key[1] # "0")
    /\ Len(key) <= 4

StringProperty(str, key) ==
    IF IsIndexKey(key)
    THEN Bind(ScanDigits[key, 1, 0, 0][1], LAMBDA idx :
             IF idx < Len(str) THEN StrV(<<str[idx + 1]>>) ELSE Undefined)
    ELSE IF key = sLength THEN NumV(Z(Len(str)))
    ELSE IF key \in {sTrim, sAt} THEN FunctionV
    ELSE Undefined

\* ------------------------------------------------------------------------
\* Array.prototype.sort with the comparator (a, b) => key(a) - key(b): a
\* stable insertion sort of <<key, item>> pairs; a NaN difference compares
\* as equal
\* ------------------------------------------------------------------------

\* the position after which pair p goes in the sorted sequence s
InsertPos[s \in Seq(Num \X Nat), p \in Num \X Nat, j \in Nat] ==
    IF j >= 1 /\ NLt(NSub(p[1], s[j][1]), Z(0)) THEN InsertPos[s, p, j - 1] ELSE j

InsertSorted(s, p) ==
    Bind(InsertPos[s, p, Len(s)], LAMBDA j :
        SubSeq(s, 1, j) \o <<p>> \o SubSeq(s, j + 1, Len(s)))

\* keys: a sequence of numbers; the permutation (indices into keys) that
\* sorts it ascending, stable
SortedOrderF[keys \in Seq(Num), n \in Nat] ==
    IF n = 0 THEN <<>> ELSE InsertSorted(SortedOrderF[keys, n - 1], <<keys[n], n>>)

SortedOrder(keys) ==
    Bind(keys, LAMBDA ks :
    Bind(SortedOrderF[ks, Len(ks)], LAMBDA prs : Vec(Len(prs), LAMBDA i : prs[i][2])))

\* ------------------------------------------------------------------------
\* interpolate
\* ------------------------------------------------------------------------

\* the outcome of a TypeError raised while a helper runs
Thrown == <<"TypeError">>

\* the first i (from 0) with i = length or not (sortedPoints[i].x < x)
InterpWhile[sortedPoints \in Seq([x : Num, y : Num]), x \in Num, i \in Nat] ==
    IF i < Len(sortedPoints) /\ NLt(sortedPoints[i + 1].x, x)
    THEN InterpWhile[sortedPoints, x, i + 1] ELSE i

\* interpolate without the sort of line 136
interpolateUnsorted(x, points) ==
    Bind(<<x, points>>, LAMBDA a :
    IF Len(a[2]) = 0 THEN Z(0)
    ELSE IF Len(a[2]) = 1 THEN a[2][1].y
    ELSE Bind(a[2], LAMBDA sortedPoints :
         IF NLe(a[1], sortedPoints[1].x) THEN sortedPoints[1].y
         ELSE IF NLe(sortedPoints[Len(sortedPoints)].x, a[1])
              THEN sortedPoints[Len(sortedPoints)].y
         ELSE Bind(InterpWhile[sortedPoints, a[1], 0], LAMBDA i :
              IF i = 0 \/ i = Len(sortedPoints) THEN Thrown
              ELSE Bind(<<sortedPoints[i], sortedPoints[i + 1]>>, LAMBDA pp :
                   IF pp[1].x = pp[2].x THEN pp[1].y
                   ELSE NAdd(pp[1].y,
                             NMul(NDiv(NSub(pp[2].y, pp[1].y), NSub(pp[2].x, pp[1].x)),
                                  NSub(a[1], pp[1].x)))))))

interpolate(x, points) ==
    Bind(<<x, points>>, LAMBDA a :
    IF Len(a[2]) = 0 THEN Z(0)
    ELSE IF Len(a[2]) = 1 THEN a[2][1].y
    ELSE Bind(SortedOrder(Vec(Len(a[2]), LAMBDA k : a[2][k].x)), LAMBDA ord :
         Bind(Vec(Len(ord), LAMBDA k : a[2][ord[k]]), LAMBDA sortedPoints :
         IF NLe(a[1], sortedPoints[1].x) THEN sortedPoints[1].y
         ELSE IF NLe(sortedPoints[Len(sortedPoints)].x, a[1])
              THEN sortedPoints[Len(sortedPoints)].y
         ELSE Bind(InterpWhile[sortedPoints, a[1], 0], LAMBDA i :
              IF i = 0 \/ i = Len(sortedPoints) THEN Thrown
              ELSE Bind(<<sortedPoints[i], sortedPoints[i + 1]>>, LAMBDA pp :
                   IF pp[1].x = pp[2].x THEN pp[1].y
                   ELSE NAdd(pp[1].y,
                             NMul(NDiv(NSub(pp[2].y, pp[1].y), NSub(pp[2].x, pp[1].x)),
                                  NSub(a[1], pp[1].x))))))))

\* ------------------------------------------------------------------------
\* safeEval: the whitelist test, then new Function('x', `return ${expr}`)
\* called with x.  The function body is read as JavaScript: the tokens an
\* accepted string can hold are numeric literals, identifiers made of x and
\* digits, the punctuators ( ) + - * / . ++ -- ** ..., comments and regular
\* expression literals.  Of the characters the test rejects, only the
\* statement separator ; is read: `return x;` returns x.
\* ------------------------------------------------------------------------

Null == <<"null">>

\* /[^x\d\s()+\-*/.]/
WhitelistChars == {"x", "(", ")", "+", "-", "*", "/", "."}

Whitelisted(c) == c \in WhitelistChars \/ IsDigit(c) \/ IsSpace(c)


IsIdPart(c) == c = "x" \/ IsDigit(c)

CharAt(s, i) == IF i >= 1 /\ i <= Len(s) THEN s[i] ELSE ""

\* the first position k >= i with k > Len(s) or Stop(s, k)
FirstFrom(s, i, Stop(_)) ==
    CHOOSE k \in i..(Len(s) + 1) :
        /\ k > Len(s) \/ Stop(k)
        /\ \A m \in i..(k - 1) : ~Stop(m)

SkipDigits(s, i) == FirstFrom(s, i, LAMBDA k : ~IsDigit(s[k]))

SkipIdPart(s, i) == FirstFrom(s, i, LAMBDA k : ~IsIdPart(s[k]))

SkipSpace(s, i) == FirstFrom(s, i, LAMBDA k : ~IsSpace(s[k]))

\* the first position >= i holding c, or 0
FindChar(s, i, c) ==
    Bind(FirstFrom(s, i, LAMBDA k : s[k] = c), LAMBDA k :
        IF k > Len(s) THEN 0 ELSE k)

\* the position of the * of the first */ at or after i, or 0
FindCommentEnd(s, i) ==
    Bind(FirstFrom(s, i, LAMBDA k : s[k] = "*" /\ CharAt(s, k + 1) = "/"), LAMBDA k :
        IF k > Len(s) THEN 0 ELSE k)

\* the digits s[i..j-1] read in the given base
DigitsIn[s \in Seq(STRING), i \in Nat, j \in Nat, base \in Nat, acc \in Nat] ==
    IF i >= j THEN acc ELSE DigitsIn[s, i + 1, j, base, acc * base + DigitValue(s[i])]

\* a regular expression body over the accepted characters is a pattern when
\* its parentheses balance and every * or + follows an atom or a group
RegexBodyOk[b \in Seq(STRING), i \in Nat, depth \in Nat, atom \in BOOLEAN] ==
    IF i > Len(b) THEN depth = 0
    ELSE IF b[i] = "(" THEN RegexBodyOk[b, i + 1, depth + 1, FALSE]
    ELSE IF b[i] = ")" THEN depth > 0 /\ RegexBodyOk[b, i + 1, depth - 1, TRUE]
    ELSE IF b[i] \in {"*", "+"} THEN atom /\ RegexBodyOk[b, i + 1, depth, FALSE]
    ELSE RegexBodyOk[b, i + 1, depth, TRUE]

Tok(k, v, nl) == [k |-> k, v |-> v, nl |-> nl]

\* the outcome of a string that is no sequence of tokens
LexFail == <<Tok("SyntaxError", <<>>, FALSE)>>

\* the numeric literal starting at s[i] (a digit, or a . before a digit):
\* <<value, next position>>, or <<>> when there is none
LexNumber(s, i) ==
    IF s[i] = "0" /\ CharAt(s, i + 1) = "x"
    THEN Bind(SkipDigits(s, i + 2), LAMBDA j :
             IF j = i + 2 \/ IsIdPart(CharAt(s, j)) THEN <<>>
             ELSE <<Z(DigitsIn[s, i + 2, j, 16, 0]), j>>)
    ELSE IF s[i] = "0" /\ IsDigit(CharAt(s, i + 1))
            /\ \A k \in i..(SkipDigits(s, i) - 1) : s[k] \notin {"8", "9"}
    THEN Bind(SkipDigits(s, i), LAMBDA j :
             IF IsIdPart(CharAt(s, j)) THEN <<>>
             ELSE <<Z(DigitsIn[s, i, j, 8, 0]), j>>)
    ELSE Bind(SkipDigits(s, i), LAMBDA j :
         Bind(IF CharAt(s, j) = "." THEN SkipDigits(s, j + 1) ELSE j, LAMBDA e :
             IF IsIdPart(CharAt(s, e)) THEN <<>>
             ELSE <<NAdd(Z(DigitsIn[s, i, j, 10, 0]),
                         IF e > j + 1
                         THEN Q(DigitsIn[s, j + 1, e, 10, 0], Pow10[e - j - 1])
                         ELSE Z(0)), e>>))

\* what LexOne finds: a token, a comment, a comment that ends the text, or
\* no token at all
Found(kind, tok, next, flag) == [kind |-> kind, tok |-> tok, next |-> next, flag |-> flag]

NoTok == Tok("", <<>>, FALSE)

\* What starts at s[i], a position holding no white space: a token (flag: it
\* ends an operand) or a comment (flag: it holds a line end).  val: the
\* previous token ends an operand (a / is then a division, a ++ a postfix
\* operator); nl: a line end was passed since the previous token.
LexOne(s, i, val, nl) ==
    IF s[i] = "/" /\ CharAt(s, i + 1) = "/"
    THEN Bind(FindChar(s, i, "\n"), LAMBDA j :
             IF j = 0 THEN Found("eof", NoTok, 0, FALSE)
             ELSE Found("comment", NoTok, j, FALSE))
    ELSE IF s[i] = "/" /\ CharAt(s, i + 1) = "*"
    THEN Bind(FindCommentEnd(s, i + 2), LAMBDA j :
             IF j = 0 THEN Found("fail", NoTok, 0, FALSE)
             ELSE Found("comment", NoTok, j + 2,
                        \E k \in (i + 2)..(j - 1) : s[k] = "\n"))
    ELSE IF s[i] = "/" /\ ~val
    THEN Bind(FindChar(s, i + 1, "/"), LAMBDA j :
             IF j = 0 THEN Found("fail", NoTok, 0, FALSE)
             ELSE IF (\E k \in (i + 1)..(j - 1) : s[k] = "\n")
                     \/ ~RegexBodyOk[SubSeq(s, i + 1, j - 1), 1, 0, FALSE]
                     \/ IsIdPart(CharAt(s, j + 1))
             THEN Found("fail", NoTok, 0, FALSE)
             ELSE Found("tok", Tok("regex", <<>>, nl), j + 1, TRUE))
    ELSE IF IsDigit(s[i]) \/ (s[i] = "." /\ IsDigit(CharAt(s, i + 1)))
    THEN Bind(LexNumber(s, i), LAMBDA r :
             IF r = <<>> THEN Found("fail", NoTok, 0, FALSE)
             ELSE Found("tok", Tok("num", r[1], nl), r[2], TRUE))
    ELSE IF s[i] = "x"
    THEN Bind(SkipIdPart(s, i), LAMBDA j :
             Found("tok", Tok("id", SubSeq(s, i, j - 1), nl), j, TRUE))
    ELSE Bind(IF s[i] \in {"+", "-", "*"} /\ CharAt(s, i + 1) = s[i] THEN 2
              ELSE IF s[i] = "." /\ CharAt(s, i + 1) = "." /\ CharAt(s, i + 2) = "."
              THEN 3 ELSE 1, LAMBDA n :
         Bind(IF n = 2 THEN s[i] \o s[i] ELSE IF n = 3 THEN "..." ELSE s[i], LAMBDA op :
             Found("tok", Tok(op, <<>>, nl), i + n,
                   op = ")" \/ (op \in {"++", "--"} /\ val /\ ~nl))))

\* The state of the scan: the next position i, val and nl as above, the
\* tokens found so far, and whether the scan is over.
LexState(i, val, nl, toks, over) ==
    [i |-> i, val |-> val, nl |-> nl, toks |-> toks, over |-> over]

\* one more token or comment
LexStep(s, st) ==
    IF st.over THEN st
    ELSE Bind(SkipSpace(s, st.i), LAMBDA j :
         Bind(st.nl \/ \E k \in (st.i)..(j - 1) : s[k] = "\n", LAMBDA nl :
         IF j > Len(s)
         THEN LexState(j, FALSE, FALSE, Append(st.toks, Tok("end", <<>>, nl)), TRUE)
         ELSE Bind(LexOne(s, j, st.val, nl), LAMBDA t :
              IF t.kind = "eof"
              THEN LexState(j, FALSE, FALSE, Append(st.toks, Tok("end", <<>>, nl)), TRUE)
              ELSE IF t.kind = "fail" THEN LexState(j, FALSE, FALSE, LexFail, TRUE)
              ELSE IF t.kind = "comment"
              THEN LexState(t.next, st.val, nl \/ t.flag, st.toks, FALSE)
              ELSE LexState(t.next, t.flag, FALSE, Append(st.toks, t.tok), FALSE))))

RECURSIVE LexSteps(_, _, _)
\* n steps of the scan
LexSteps(s, n, st) ==
    Bind(<<n, st>>, LAMBDA a :
        IF a[1] = 0 THEN a[2]
        ELSE IF a[1] = 1 THEN LexStep(s, a[2])
        ELSE LexSteps(s, a[1] - (a[1] \div 2), LexSteps(s, a[1] \div 2, a[2])))

\* the tokens of s, ended by an "end" token; or LexFail
Lex(s) ==
    LexSteps(s, Len(s) + 1, LexState(1, FALSE, FALSE, <<>>, FALSE)).toks

\* a regular expression object, or the string a + makes of one: a value that
\* is no number and whose number is NaN
ObjectV == [t |-> "object"]

ToNumber(v) == IF v.t = "number" THEN v.n ELSE NaN

\* b * b * ... * b (n factors)
IntPow[b \in Num, n \in Nat] ==
    IF n = 0 THEN Z(1) ELSE NMul(b, IntPow[b, n - 1])

\* a power that is no rational number; arithmetic on it is not modelled
Irrational == <<"irrational">>

\* Number::exponentiate
NPow(base, exponent) ==
    Bind(<<base, exponent>>, LAMBDA a :
    LET b == a[1]
        e == a[2]
    IN  IF e = Z(0) THEN Z(1)
        ELSE IF IsNaN(e) \/ IsNaN(b) THEN NaN
        ELSE IF ~IsFinite(e)
        THEN IF Abs(b[1]) = b[2] THEN NaN
             ELSE IF (~IsFinite(b) \/ Abs(b[1]) > b[2]) <=> (e = PosInf) THEN PosInf
             ELSE Z(0)
        ELSE IF ~IsFinite(b)
        THEN IF e[1] < 0 THEN Z(0)
             ELSE IF b = NegInf /\ e[2] = 1 /\ e[1] % 2 = 1 THEN NegInf ELSE PosInf
        ELSE IF e[2] = 1
        THEN IF e[1] > 0 THEN IntPow[b, e[1]] ELSE NDiv(Z(1), IntPow[b, -e[1]])
        ELSE IF b[1] < 0 THEN NaN
        ELSE IF b[1] = 0 THEN (IF e[1] > 0 THEN Z(0) ELSE PosInf)
        ELSE IF b = Z(1) THEN Z(1)
        ELSE Irrational)

\* the value of l op r
BinaryOp(op, l, r) ==
    IF op = "+"
    THEN IF l.t = "object" \/ r.t = "object" THEN ObjectV
         ELSE NumV(NAdd(ToNumber(l), ToNumber(r)))
    ELSE IF op = "-" THEN NumV(NSub(ToNumber(l), ToNumber(r)))
    ELSE IF op = "*" THEN NumV(NMul(ToNumber(l), ToNumber(r)))
    ELSE IF op = "/" THEN NumV(NDiv(ToNumber(l), ToNumber(r)))
    ELSE NumV(NPow(ToNumber(l), ToNumber(r)))

\* The function body is read by an operator-precedence parser that
\* evaluates as it goes, one token a step.
\*   vals    the operands read and not yet used: v (the value), tgt (what
\*           an assignment to it would write: "x", a "member", an unresolved
\*           "ref", or "none"), lhs (a member access, a call or a postfix
\*           operator may follow it)
\*   ops     the operators and open parentheses waiting for their operands
\*   x       the parameter's value; rt: the evaluation so far throws
\*   first   the value of the first statement, the one `return` returns
Val(v, tgt, lhs) == [v |-> v, tgt |-> tgt, lhs |-> lhs]

NoFirst == [set |-> FALSE, v |-> Undefined, rt |-> FALSE]

PState(x) ==
    [p |-> 1, x |-> x, rt |-> FALSE, vals |-> <<>>, ops |-> <<>>,
     expect |-> "operand", status |-> "run", first |-> NoFirst]

Fail(st) == [st EXCEPT !.status = "fail"]

Top(stack) == stack[Len(stack)]

Pop(stack) == SubSeq(stack, 1, Len(stack) - 1)

Prec(op) ==
    IF op \in {"+", "-"} THEN 1
    ELSE IF op \in {"*", "/"} THEN 2
    ELSE IF op = "**" THEN 3
    ELSE IF op \in {"u+", "u-"} THEN 4
    ELSE IF op \in {"pre++", "pre--"} THEN 5
    ELSE 0

Step(op) == IF op \in {"++", "pre++"} THEN Z(1) ELSE Z(-1)

\* the operator on top of ops applied to the operands on top of vals
ApplyTop(st) ==
    LET op == Top(st.ops)
        a == Top(st.vals)
    IN  IF op \in {"u+", "u-"}
        THEN [st EXCEPT !.ops = Pop(@),
                        !.vals = Append(Pop(@),
                                    Val(NumV(IF op = "u-" THEN NNeg(ToNumber(a.v))
                                             ELSE ToNumber(a.v)), "none", FALSE))]
        ELSE IF op \in {"pre++", "pre--"}
        THEN IF a.tgt = "none" THEN Fail(st)
             ELSE Bind(NAdd(ToNumber(a.v), Step(op)), LAMBDA n :
                      [st EXCEPT !.ops = Pop(@),
                                 !.vals = Append(Pop(@), Val(NumV(n), "none", FALSE)),
                                 !.x = IF a.tgt = "x" THEN n ELSE @])
        ELSE [st EXCEPT !.ops = Pop(@),
                        !.vals = Append(Pop(Pop(@)),
                                    Val(BinaryOp(op, st.vals[Len(st.vals) - 1].v, a.v),
                                        "none", FALSE))]

RECURSIVE Reduce(_, _)
\* apply the waiting operators that bind at least as tightly as minPrec
Reduce(st, minPrec) ==
    Bind(st, LAMBDA s :
        IF s.status = "fail" \/ s.ops = <<>> THEN s
        ELSE IF Prec(Top(s.ops)) < minPrec THEN s
        ELSE Reduce(ApplyTop(s), minPrec))

\* the operand a token is
Operand(t, x) ==
    IF t.k = "num" THEN Val(NumV(t.v), "none", TRUE)
    ELSE IF t.k = "regex" THEN Val(ObjectV, "none", TRUE)
    ELSE IF t.v = <<"x">> THEN Val(NumV(x), "x", TRUE)
    ELSE Val(Undefined, "ref", TRUE)

\* one more token read
ParseStep(toks, st) ==
    IF st.status # "run" THEN st
    ELSE
    LET t == toks[st.p]
        k == t.k
        a == Top(st.vals)
    IN
    IF st.expect = "operand"
    THEN IF k \in {"num", "id", "regex"}
         THEN [st EXCEPT !.p = @ + 1, !.expect = "operator",
                         !.vals = Append(@, Operand(t, st.x)),
                         !.rt = @ \/ (k = "id" /\ t.v # <<"x">>)]
         ELSE IF k = "(" THEN [st EXCEPT !.p = @ + 1, !.ops = Append(@, "group")]
         ELSE IF k \in {"+", "-"} THEN [st EXCEPT !.p = @ + 1, !.ops = Append(@, "u" \o k)]
         ELSE IF k \in {"++", "--"}
         THEN [st EXCEPT !.p = @ + 1, !.ops = Append(@, "pre" \o k)]
         ELSE IF k \in {";", "end"} /\ st.first.set /\ st.vals = <<>> /\ st.ops = <<>>
         THEN [st EXCEPT !.p = @ + 1, !.status = IF k = "end" THEN "done" ELSE "run"]
         ELSE Fail(st)
    ELSE IF k \in {"++", "--"} /\ ~t.nl
    THEN IF ~a.lhs \/ a.tgt = "none" THEN Fail(st)
         ELSE [st EXCEPT !.p = @ + 1,
                         !.vals = Append(Pop(@), Val(NumV(ToNumber(a.v)), "none", FALSE)),
                         !.x = IF a.tgt = "x" THEN NAdd(ToNumber(a.v), Step(k)) ELSE @]
    ELSE IF k = "."
    THEN IF ~a.lhs \/ toks[st.p + 1].k # "id" THEN Fail(st)
         ELSE [st EXCEPT !.p = @ + 2,
                         !.vals = Append(Pop(@), Val(Undefined, "member", TRUE)),
                         !.rt = @ \/ a.v.t = "undefined"]
    ELSE IF k = "("
    THEN IF ~a.lhs THEN Fail(st)
         ELSE IF toks[st.p + 1].k = ")"
         THEN [st EXCEPT !.p = @ + 2, !.rt = TRUE,
                         !.vals = Append(Pop(@), Val(Undefined, "none", TRUE))]
         ELSE [st EXCEPT !.p = @ + (IF toks[st.p + 1].k = "..." THEN 2 ELSE 1),
                         !.ops = Append(@, "call"), !.expect = "operand"]
    ELSE IF k \in {"+", "-", "*", "/"}
    THEN Bind(Reduce(st, Prec(k)), LAMBDA r :
             IF r.status = "fail" THEN r
             ELSE [r EXCEPT !.p = @ + 1, !.ops = Append(@, k), !.expect = "operand"])
    ELSE IF k = "**"
    THEN Bind(Reduce(st, 5), LAMBDA r :
             IF r.status = "fail" THEN r
             ELSE IF r.ops # <<>> /\ Top(r.ops) \in {"u+", "u-"} THEN Fail(r)
             ELSE [r EXCEPT !.p = @ + 1, !.ops = Append(@, k), !.expect = "operand"])
    ELSE IF k = ")"
    THEN Bind(Reduce(st, 1), LAMBDA r :
             IF r.status = "fail" THEN r
             ELSE IF r.ops = <<>> THEN Fail(r)
             ELSE IF Top(r.ops) = "group"
             THEN [r EXCEPT !.p = @ + 1, !.ops = Pop(@),
                            !.vals = Append(Pop(@),
                                        Val(Top(r.vals).v, Top(r.vals).tgt, TRUE))]
             ELSE [r EXCEPT !.p = @ + 1, !.ops = Pop(@), !.rt = TRUE,
                            !.vals = Append(Pop(Pop(@)), Val(Undefined, "none", TRUE))])
    ELSE IF k \in {"end", ";"} \/ (t.nl /\ k \in {"num", "id", "regex", "++", "--"})
    THEN Bind(Reduce(st, 1), LAMBDA r :
             IF r.status = "fail" THEN r
             ELSE IF r.ops # <<>> THEN Fail(r)
             ELSE [r EXCEPT !.vals = <<>>, !.expect = "operand",
                            !.p = IF k = ";" THEN @ + 1 ELSE @,
                            !.status = IF k = "end" THEN "done" ELSE "run",
                            !.first = IF @.set THEN @
                                      ELSE [set |-> TRUE, v |-> Top(r.vals).v,
                                            rt |-> r.rt]])
    ELSE Fail(st)

RECURSIVE ParseSteps(_, _, _)
\* n steps of the parser
ParseSteps(toks, n, st) ==
    Bind(<<n, st>>, LAMBDA a :
        IF a[1] = 0 THEN a[2]
        ELSE IF a[1] = 1 THEN ParseStep(toks, a[2])
        ELSE ParseSteps(toks, a[1] - (a[1] \div 2), ParseSteps(toks, a[1] \div 2, a[2])))

\* new Function('x', `return ${expr}`)(x): thrown (the text is no function
\* body, or running it throws), v (the value returned otherwise)
NewFunction(expr, x) ==
    Bind(Lex(expr), LAMBDA toks :
        IF toks = LexFail THEN [thrown |-> TRUE, v |-> Undefined]
        ELSE IF toks[1].k \in {"end", ";"} \/ toks[1].nl
        THEN Bind(ParseSteps(toks, 2 * Len(toks),
                             [PState(x) EXCEPT !.first = [set |-> TRUE, v |-> Undefined,
                                                          rt |-> FALSE]]), LAMBDA r :
                 [thrown |-> r.status # "done", v |-> Undefined])
        ELSE Bind(ParseSteps(toks, 2 * Len(toks), PState(x)), LAMBDA r :
                 [thrown |-> r.status # "done" \/ r.first.rt, v |-> r.first.v]))

\* safeEval without the test of its first line
safeEvalUnfiltered(expr, x) ==
    Bind(NewFunction(expr, x), LAMBDA r :
        IF r.thrown THEN Null
        ELSE IF IsNaN(ToNumber(r.v)) THEN Null ELSE r.v.n)

\* safeEval with result || 0 in place of isNaN(result) ? null : result
safeEvalOrZero(expr, x) ==
    IF \E i \in 1..Len(expr) : ~Whitelisted(expr[i]) THEN Null
    ELSE Bind(NewFunction(expr, x), LAMBDA r :
             IF r.thrown THEN Null
             ELSE IF IsNaN(ToNumber(r.v)) THEN Z(0) ELSE r.v.n)

safeEval(expr, x) ==
    IF \E i \in 1..Len(expr) : ~Whitelisted(expr[i]) THEN Null
    ELSE Bind(NewFunction(expr, x), LAMBDA r :
             IF r.thrown THEN Null
             ELSE IF IsNaN(ToNumber(r.v)) THEN Null ELSE r.v.n)

\* ------------------------------------------------------------------------
\* Utility scores and final scores.  A criterion or an option is a record
\* [id, content]; utilityFunctions, optionValues and utilityScores are
\* objects: functions whose domain is the set of their keys.
\* ------------------------------------------------------------------------

\* Math.min(a, b) and Math.max(a, b)
MathMin(a, b) ==
    Bind(<<a, b>>, LAMBDA p :
        IF IsNaN(p[1]) \/ IsNaN(p[2]) THEN NaN
        ELSE IF NLt(p[2], p[1]) THEN p[2] ELSE p[1])

MathMax(a, b) ==
    Bind(<<a, b>>, LAMBDA p :
        IF IsNaN(p[1]) \/ IsNaN(p[2]) THEN NaN
        ELSE IF NLt(p[1], p[2]) THEN p[2] ELSE p[1])

\* n || 0 for a number n
OrZero(n) == Bind(n, LAMBDA v : IF IsNaN(v) THEN Z(0) ELSE v)

\* the ids of a list of criteria or options
Ids(items) == {items[k].id : k \in 1..Len(items)}

\* optionValues[optionId]?.[criterionId]
Entry(values, optionId, criterionId) ==
    IF optionId \in DOMAIN values
    THEN IF criterionId \in DOMAIN values[optionId]
         THEN values[optionId][criterionId] ELSE Undefined
    ELSE Undefined

\* a find that falls back on the first level
FindLevelOrFirst(levels, selectedLabel) ==
    IF \E k \in 1..Len(levels) :
           selectedLabel.t = "string" /\ levels[k].label = selectedLabel.s
    THEN CHOOSE k \in 1..Len(levels) :
           /\ levels[k].label = selectedLabel.s
           /\ \A m \in 1..(k - 1) : levels[m].label # selectedLabel.s
    ELSE IF Len(levels) > 0 THEN 1 ELSE 0

\* func.qualitativeLevels.find(l => l.label === selectedLabel), as the
\* position of the level found, or 0
FindLevel(levels, selectedLabel) ==
    IF \E k \in 1..Len(levels) :
           selectedLabel.t = "string" /\ levels[k].label = selectedLabel.s
    THEN CHOOSE k \in 1..Len(levels) :
           /\ levels[k].label = selectedLabel.s
           /\ \A m \in 1..(k - 1) : levels[m].label # selectedLabel.s
    ELSE 0

\* The utility one cell gets, before clamping: the body both
\* calculateOptionValues and Step 4's calculateScores run for a criterion,
\* given what each reads as the option's raw value.
UtilityOf(utilityFunctions, criterionId, raw) ==
    IF criterionId \notin DOMAIN utilityFunctions THEN Z(0)
    ELSE Bind(<<utilityFunctions[criterionId], raw>>, LAMBDA a :
         LET func == a[1] IN
         IF func.criterionType = "qualitative"
         THEN Bind(FindLevel(func.qualitativeLevels, a[2]), LAMBDA k :
                  IF k # 0 THEN func.qualitativeLevels[k].utility ELSE Z(0))
         ELSE Bind(parseFloat(a[2]), LAMBDA value :
              IF IsNaN(value) THEN Z(0)
              ELSE IF func.mode = "formula" /\ func.formulaString # <<>>
              THEN Bind(safeEval(func.formulaString, value), LAMBDA result :
                       IF result # Null THEN result ELSE Z(0))
              ELSE IF func.mode = "table" /\ Len(func.points) > 0
              THEN interpolate(value, func.points)
              ELSE Z(0)))

\* Math.max(0, utility) alone
ClampBelow(utility) ==
    Bind(utility, LAMBDA u :
        IF u = Thrown THEN Thrown ELSE MathMax(Z(0), u))

\* Math.max(0, Math.min(100, utility))
Clamp(utility) ==
    Bind(utility, LAMBDA u :
        IF u = Thrown THEN Thrown ELSE MathMax(Z(0), MathMin(Z(100), u)))

\* A grid of cells: thrown (computing a cell throws a TypeError), values
\* (the object built otherwise).
Grid(options, criteria, Cell(_, _)) ==
    Bind([o \in Ids(options) |-> [c \in Ids(criteria) |-> Cell(o, c)]], LAMBDA g :
        IF \E o \in DOMAIN g : \E c \in DOMAIN g[o] : g[o][c] = Thrown
        THEN [thrown |-> TRUE, values |-> <<>>]
        ELSE [thrown |-> FALSE, values |-> g])

calculateOptionValues(options, criteria, utilityFunctions) ==
    Grid(options, criteria, LAMBDA o, c :
        Clamp(UtilityOf(utilityFunctions, c, StringProperty(o, c))))

\* Step 4
calculateScores(options, criteria, optionValues, utilityFunctions) ==
    Grid(options, criteria, LAMBDA o, c :
        Clamp(UtilityOf(utilityFunctions, c, Entry(optionValues, o, c))))

\* weights[index] || 0, index counted from 0
WeightAt(weights, index) ==
    IF index < Len(weights) THEN OrZero(weights[index + 1]) ELSE Z(0)

\* utilities[optionId]?.[criterionId] || 0
UtilityAt(utilities, optionId, criterionId) ==
    IF optionId \in DOMAIN utilities
    THEN IF criterionId \in DOMAIN utilities[optionId]
         THEN OrZero(utilities[optionId][criterionId]) ELSE Z(0)
    ELSE Z(0)

\* a variant that adds the utilities up without their weights
TotalScoreUnweighted(optionId, criteria, weights, utilities) ==
    NSum(Vec(Len(criteria), LAMBDA k : UtilityAt(utilities, optionId, criteria[k].id)))

\* the totalScore the criteria.forEach loop leaves for one option
TotalScore(optionId, criteria, weights, utilities) ==
    NSum(Vec(Len(criteria), LAMBDA k :
        NMul(UtilityAt(utilities, optionId, criteria[k].id), WeightAt(weights, k - 1))))

calculateFinalScores(options, criteria, weights, optionValues) ==
    Vec(Len(options), LAMBDA k :
        [optionId |-> options[k].id,
         score |-> TotalScore(options[k].id, criteria, weights, optionValues)])

\* a variant with the comparator (a, b) => a.score - b.score
SortByScoreAscending(items) ==
    Bind(items, LAMBDA its :
    Bind(SortedOrder(Vec(Len(its), LAMBDA k : its[k].score)), LAMBDA ord :
        Vec(Len(its), LAMBDA k : its[ord[k]])))

\* items in the order of .sort((a, b) => b.score - a.score)
SortByScore(items) ==
    Bind(items, LAMBDA its :
    Bind(SortedOrder(Vec(Len(its), LAMBDA k : NNeg(its[k].score))), LAMBDA ord :
        Vec(Len(its), LAMBDA k : its[ord[k]])))

WithScore(option, score) ==
    [id |-> option.id, content |-> option.content, score |-> score]

\* Step 5: the finalScores memo, an object keyed by option id
Step5FinalScores(options, criteria, weights, utilityScores) ==
    [o \in Ids(options) |-> TotalScore(o, criteria, weights, utilityScores)]

\* Step 5: the sortedOptions memo, finalScores[o.id] || 0 for every option,
\* sorted
Step5SortedOptions(options, finalScores) ==
    Bind(finalScores, LAMBDA fs :
        SortByScore(Vec(Len(options), LAMBDA k :
            WithScore(options[k], OrZero(fs[options[k].id])))))

\* App: the finalScores memo; an exception inside the try gives []
AppFinalScores(criteria, options, pairwiseMatrix, utilityFunctions) ==
    IF Len(criteria) = 0 \/ Len(options) = 0 THEN <<>>
    ELSE Bind(calculateOptionValues(options, criteria, utilityFunctions), LAMBDA cov :
         IF cov.thrown THEN <<>>
         ELSE calculateFinalScores(options, criteria,
                                   calculateWeights(normalizeMatrix(pairwiseMatrix)),
                                   cov.values))

\* finalScores.find(s => s.optionId === opt.id)?.score || 0
FoundScore(finalScores, optionId) ==
    IF \E k \in 1..Len(finalScores) : finalScores[k].optionId = optionId
    THEN OrZero(finalScores[CHOOSE k \in 1..Len(finalScores) :
                    /\ finalScores[k].optionId = optionId
                    /\ \A m \in 1..(k - 1) : finalScores[m].optionId # optionId].score)
    ELSE Z(0)

\* App: the sortedOptions memo
AppSortedOptions(options, finalScores) ==
    Bind(finalScores, LAMBDA fs :
    IF Len(fs) = 0 THEN <<>>
    ELSE SortByScore(Vec(Len(options), LAMBDA k :
             WithScore(options[k], FoundScore(fs, options[k].id)))))

\* ------------------------------------------------------------------------
\* The App component: its state, the handlers of Steps 1, 2, 4 and 5, the
\* file reader, and the effects that run after every state change.
\* ------------------------------------------------------------------------

Item(name) == [id |-> name, content |-> name]

Point(x, y) == [x |-> Z(x), y |-> Z(y)]

Level(label, utility) == [label |-> label, utility |-> Z(utility)]

UtilityFunction(criterionType, mode, formulaString, points, qualitativeLevels) ==
    [criterionType |-> criterionType, mode |-> mode, formulaString |-> formulaString,
     points |-> points, qualitativeLevels |-> qualitativeLevels]

InitialCriteria ==
    <<Item(sRisk), Item(sSWEffort), Item(sHWCosts), Item(sFutureAdaptability)>>

InitialOptions ==
    <<Item(sDualPrimary), Item(sCompressedDual), Item(sCompressedAsym), Item(sTeleAssisted)>>

InitialPairwiseMatrix ==
    << <<Z(1), Z(9), Z(7), Z(7)>>,
       <<Q(1, 9), Z(1), Z(3), Q(1, 3)>>,
       <<Q(1, 7), Q(1, 3), Z(1), Z(5)>>,
       <<Q(1, 7), Z(3), Q(1, 5), Z(1)>> >>

InitialUtilityFunctions ==
    [c \in Ids(InitialCriteria) |->
        IF c = sRisk
        THEN UtilityFunction("qualitative", "table", <<>>, <<>>,
                 <<Level(sLow, 100), Level(sMedium, 50), Level(sHigh, 0)>>)
        ELSE IF c = sHWCosts
        THEN UtilityFunction("quantitative", "formula", sHWCostsFormula,
                 <<Point(300000, 100), Point(400000, 0)>>, <<>>)
        ELSE UtilityFunction("quantitative", "table", <<>>,
                 <<Point(0, 0), Point(100, 100)>>, <<>>)]

\* --- what the user can type, pick, drag and load -------------------------

sCost == <<"C", "o", "s", "t">>
sSpeed == <<"S", "p", "e", "e", "d">>
sA == <<"A">>
sB == <<"B">>
s0 == <<"0">>
s50 == <<"5", "0">>
s100 == <<"1", "0", "0">>
s350000 == <<"3", "5", "0", "0", "0", "0">>

\* texts of the "new criterion" box: a new name, a name that trims to an
\* existing one, a blank
NewCriterionTexts == {sCost, <<" ">> \o sRisk \o <<" ">>, <<" ", " ">>}

NewOptionTexts == {sA, <<" ">> \o sDualPrimary}

\* <<source.index, destination.index>> of a drop inside a list
DragMoves == {<<0, 1>>, <<2, 0>>}

\* <<i, j>> of the sliders moved, and the positions they are moved to
MovedSliders == {<<0, 1>>, <<1, 2>>, <<0, 4>>}

SliderPositions == {-2, 3}

\* the rows of the Step 4 grid that are edited
EditedOptions == {0, 1}

\* the positions of the levels picked in a select
PickedLevels == {1}

\* what the cell of a criterion can be set to: a level of the select, or
\* the text of the number input
CellTexts(utilityFunctions, criterionId) ==
    IF criterionId \in DOMAIN utilityFunctions
       /\ utilityFunctions[criterionId].criterionType = "qualitative"
    THEN {utilityFunctions[criterionId].qualitativeLevels[k].label :
             k \in PickedLevels
                   \cap (1..Len(utilityFunctions[criterionId].qualitativeLevels))}
    ELSE IF criterionId \in DOMAIN utilityFunctions
            /\ utilityFunctions[criterionId].mode = "formula"
    THEN {s50, s350000}
    ELSE {s50}

\* a saved file: what JSON.parse gives for its text
SavedFile(criteria, pairwiseMatrix) ==
    [objective |-> "loaded",
     criteria |-> criteria,
     options |-> <<Item(sA), Item(sB)>>,
     pairwiseMatrix |-> pairwiseMatrix,
     utilityFunctions |->
        [c \in Ids(criteria) |->
            UtilityFunction("quantitative", "table", <<>>,
                            <<Point(0, 0), Point(100, 100)>>, <<>>)],
     optionValues |->
        [o \in {sA, sB} |->
            [c \in {sCost, sSpeed} |->
                StrV(IF (o = sA) <=> (c = sCost) THEN s100 ELSE s0)]]]

TwoCriteria == <<Item(sCost), Item(sSpeed)>>

ThreeCriteria == <<Item(sCost), Item(sSpeed), Item(sRisk)>>

\* every judgment off the diagonal says "half as important"
HalfMatrix ==
    << <<Z(1), Q(1, 2), Q(1, 2)>>,
       <<Q(1, 2), Z(1), Q(1, 2)>>,
       <<Q(1, 2), Q(1, 2), Z(1)>> >>

\* equal judgments; judgments that are not reciprocal; a column that sums
\* to zero; a file without criteria; three criteria, not reciprocal
Files ==
    {SavedFile(TwoCriteria, << <<Z(1), Z(1)>>, <<Z(1), Z(1)>> >>),
     SavedFile(TwoCriteria, << <<Z(1), Z(2)>>, <<Z(3), Z(1)>> >>),
     SavedFile(TwoCriteria, << <<Z(1), Z(1)>>, <<Z(-1), Z(1)>> >>),
     SavedFile(<<>>, <<>>),
     SavedFile(ThreeCriteria, HalfMatrix)}

\* the number of user events a behaviour holds
MaxEdits == 2

VARIABLES
    objective, criteria, options, pairwiseMatrix, weights, consistency,
    utilityFunctions, utilityScores, optionValues, view,
    reading,      \* the files a FileReader is still reading
    judgedFor,    \* history: for each matrix cell, the pair of criterion ids
                  \* its judgment was entered for
    derivedFor,   \* history: for each weight, the criterion id it was derived for
    edits,        \* the number of user events so far
    saved,        \* the document handleSave wrote last, with the derived values
                  \* shown at that moment (<<>>: nothing saved yet)
    last,         \* history: the operation that ran last and what it raised
    given,        \* a call of a helper function on its own: its name and arguments
    returned      \* what that call returned, <<>> before it returns

\* the state of the App component and its history
appVars ==
    <<objective, criteria, options, pairwiseMatrix, weights, consistency,
      utilityFunctions, utilityScores, optionValues, view, reading,
      judgedFor, derivedFor, edits, saved, last>>

vars == <<appVars, given, returned>>

IdAt(items, k) == IF k <= Len(items) THEN items[k].id ELSE <<>>

\* the cells of an n x n matrix whose row and column k stand for items[k]
JudgedForItems(items, n) ==
    Vec(n, LAMBDA i : Vec(n, LAMBDA j : <<IdAt(items, i), IdAt(items, j)>>))

\* an operation, the exception it left uncaught ("" for none) and the
\* exception it caught ("" for none)
Done(op, thrown, caught) == [op |-> op, thrown |-> thrown, caught |-> caught]

\* ReportPage given no data
NoReportData(opts, crits, matrix, funcs) == Undefined

\* the fields of reportData (App, lines 1146-1156) that decide what
\* ReportPage's effect does; always an object
ReportData(opts, crits, matrix, funcs) ==
    [options |-> opts, criteria |-> crits, pairwiseMatrix |-> matrix,
     utilityFunctions |-> funcs]

\* App's render of the report view throws a TypeError: calculateOptionValues
\* (line 1153)
ReportRenderThrows(opts, crits, funcs) ==
    calculateOptionValues(opts, crits, funcs).thrown

\* ReportPage's effect throws a TypeError while it builds the page for the
\* window it opened: pairwiseMatrix[i][j] for i < j when row i is missing (line
\* 912), func.criterionType when a criterion has no utility function (926-928)
ReportThrows(data) ==
    \/ Len(data.criteria) >= Len(data.pairwiseMatrix) + 2
    \/ \E k \in 1..Len(data.criteria) :
          data.criteria[k].id \notin DOMAIN data.utilityFunctions

\* What follows every state change made by operation op: App's effect on
\* [pairwiseMatrix, criteria]; Step 4's effect (calculateScores) while the
\* main view is mounted; ReportPage's effect while the report is shown: onBack
\* when it has no data, otherwise window.open, which gives a window, or null
\* when the browser blocks it.  An effect or a render that throws leaves a
\* blank page.
Effects(op, nextView) ==
    /\ IF Len(criteria') > 0 /\ Len(pairwiseMatrix') = Len(criteria')
       THEN IF criteria' = criteria /\ pairwiseMatrix' = pairwiseMatrix
            THEN UNCHANGED <<weights, consistency, derivedFor>>
            ELSE /\ weights' = calculateWeights(normalizeMatrix(pairwiseMatrix'))
                 /\ consistency' = checkConsistency(pairwiseMatrix')
                 /\ derivedFor' = Vec(Len(criteria'), LAMBDA k : criteria'[k].id)
       ELSE UNCHANGED <<weights, consistency, derivedFor>>
    /\ IF nextView = "main"
       THEN \E scores \in {calculateScores(options', criteria', optionValues',
                                            utilityFunctions')} :
                IF scores.thrown
                THEN /\ view' = "blank"
                     /\ last' = Done(op, "TypeError", "")
                     /\ UNCHANGED utilityScores
                ELSE /\ view' = "main"
                     /\ last' = Done(op, "", "")
                     /\ utilityScores' = scores.values
       ELSE /\ UNCHANGED utilityScores
            /\ \E data \in {ReportData(options', criteria', pairwiseMatrix',
                                        utilityFunctions')} :
                   IF ReportRenderThrows(options', criteria', utilityFunctions')
                   THEN view' = "blank" /\ last' = Done(op, "TypeError", "")
                   ELSE IF data = Undefined
                   THEN view' = "main" /\ last' = Done(op, "", "")
                   ELSE \E reportWindow \in BOOLEAN :
                           IF reportWindow /\ ReportThrows(data)
                           THEN view' = "blank" /\ last' = Done(op, "TypeError", "")
                           ELSE view' = "report" /\ last' = Done(op, "", "")

\* a user event on the main view
UserEvent ==
    /\ view = "main"
    /\ edits < MaxEdits
    /\ edits' = edits + 1

\* the App component after its first render and effects
AppMounted ==
    /\ objective = "<DESCRIPTION> Decision making to select the best option"
    /\ criteria = InitialCriteria
    /\ options = InitialOptions
    /\ pairwiseMatrix = InitialPairwiseMatrix
    /\ weights = calculateWeights(normalizeMatrix(InitialPairwiseMatrix))
    /\ consistency = checkConsistency(InitialPairwiseMatrix)
    /\ utilityFunctions = InitialUtilityFunctions
    /\ utilityScores = calculateScores(InitialOptions, InitialCriteria, <<>>,
                                       InitialUtilityFunctions).values
    /\ optionValues = <<>>
    /\ view = "main"
    /\ reading = {}
    /\ judgedFor = JudgedForItems(InitialCriteria, 4)
    /\ derivedFor = Vec(4, LAMBDA k : InitialCriteria[k].id)
    /\ edits = 0
    /\ saved = <<>>
    /\ last = Done("mount", "", "")

Init ==
    /\ AppMounted
    /\ given = <<>>
    /\ returned = <<>>

\* --- Step 1 ---------------------------------------------------------------

\* [...list, {id, content}] without the test of lines 252 and 259
AddedUnchecked(list, text) == Append(list, Item(Trim(text)))

\* the list addCriterion and addOption set: the text trimmed is appended when
\* it is not empty and no item of the list has it as id; otherwise no setter
\* is called
Added(list, text) ==
    IF Trim(text) # <<>> /\ Trim(text) \notin Ids(list)
    THEN Append(list, Item(Trim(text)))
    ELSE list

addCriterion(newCriterion) ==
    /\ UserEvent
    /\ criteria' = Added(criteria, newCriterion)
    /\ UNCHANGED <<given, returned, saved>>
    /\ UNCHANGED <<objective, options, pairwiseMatrix, utilityFunctions,
                   optionValues, reading, judgedFor>>
    /\ IF criteria' = criteria
       THEN /\ last' = Done("addCriterion", "", "")
            /\ UNCHANGED <<weights, consistency, utilityScores, view, derivedFor>>
       ELSE Effects("addCriterion", "main")

addOption(newOption) ==
    /\ UserEvent
    /\ options' = Added(options, newOption)
    /\ UNCHANGED <<given, returned, saved>>
    /\ UNCHANGED <<objective, criteria, pairwiseMatrix, utilityFunctions,
                   optionValues, reading, judgedFor>>
    /\ IF options' = options
       THEN /\ last' = Done("addOption", "", "")
            /\ UNCHANGED <<weights, consistency, utilityScores, view, derivedFor>>
       ELSE Effects("addOption", "main")

\* list.splice(index, 1), index counted from 0
Splice1(list, index) ==
    SubSeq(list, 1, index) \o SubSeq(list, index + 2, Len(list))

\* list.splice(index, 0, item)
SpliceIn(list, index, item) ==
    IF index >= Len(list) THEN Append(list, item)
    ELSE SubSeq(list, 1, index) \o <<item>> \o SubSeq(list, index + 1, Len(list))

removeCriterion(index) ==
    /\ UserEvent
    /\ criteria' = Splice1(criteria, index)
    /\ UNCHANGED <<given, returned, saved>>
    /\ UNCHANGED <<objective, options, pairwiseMatrix, utilityFunctions,
                   optionValues, reading, judgedFor>>
    /\ Effects("removeCriterion", "main")

removeOption(index) ==
    /\ UserEvent
    /\ options' = Splice1(options, index)
    /\ UNCHANGED <<given, returned, saved>>
    /\ UNCHANGED <<objective, criteria, pairwiseMatrix, utilityFunctions,
                   optionValues, reading, judgedFor>>
    /\ Effects("removeOption", "main")

\* the list after the dragged item is taken out and put back
Reordered(list, source, destination) ==
    SpliceIn(Splice1(list, source), destination, list[source + 1])

\* destination: <<index>>, or <<>> for a drop outside the lists
onDragEnd(type, source, destination) ==
    /\ UserEvent
    /\ destination # <<>>
    /\ IF type = "CRITERIA"
       THEN /\ criteria' = Reordered(criteria, source, destination[1])
            /\ UNCHANGED options
       ELSE /\ options' = Reordered(options, source, destination[1])
            /\ UNCHANGED criteria
    /\ UNCHANGED <<given, returned, saved>>
    /\ UNCHANGED <<objective, pairwiseMatrix, utilityFunctions, optionValues,
                   reading, judgedFor>>
    /\ Effects("onDragEnd", "main")

\* --- Step 2 ---------------------------------------------------------------

\* ComparisonSlider: the slider position shown for a matrix value (line 392)
sliderValue(value) ==
    IF NLe(Z(1), value) THEN NNeg(NSub(value, Z(1)))
    ELSE NSub(NDiv(Z(1), value), Z(1))

\* 1 / newSliderValue on the right side, without the shift by one
handleSliderChangeNoShift(newSliderValue) ==
    IF newSliderValue <= 0 THEN Z(-newSliderValue + 1)
    ELSE NDiv(Z(1), Z(newSliderValue))

\* ComparisonSlider: the matrix value of a slider position
handleSliderChange(newSliderValue) ==
    IF newSliderValue <= 0 THEN Z(-newSliderValue + 1)
    ELSE NDiv(Z(1), Z(newSliderValue + 1))

\* the matrix with [i][j] = newValue alone
WithComparisonOneSided(matrix, i, j, newValue) ==
    [matrix EXCEPT ![i + 1][j + 1] = newValue]

\* the matrix with [i][j] = newValue and [j][i] = 1 / newValue (i, j from 0)
WithComparison(matrix, i, j, newValue) ==
    [matrix EXCEPT ![i + 1][j + 1] = newValue, ![j + 1][i + 1] = NDiv(Z(1), newValue)]

\* newMatrix[j][i] = ... throws a TypeError when the matrix has no row j:
\* onMatrixChange is not reached and nothing changes
handleComparisonChange(i, j, newValue) ==
    /\ UserEvent
    /\ UNCHANGED <<given, returned, saved>>
    /\ UNCHANGED <<objective, criteria, options, utilityFunctions, optionValues,
                   reading>>
    /\ IF i < Len(pairwiseMatrix) /\ j < Len(pairwiseMatrix)
       THEN /\ pairwiseMatrix' = WithComparison(pairwiseMatrix, i, j, newValue)
            /\ judgedFor' =
                   [judgedFor EXCEPT
                       ![i + 1][j + 1] = <<criteria[i + 1].id, criteria[j + 1].id>>,
                       ![j + 1][i + 1] = <<criteria[j + 1].id, criteria[i + 1].id>>]
            /\ Effects("handleComparisonChange", "main")
       ELSE /\ last' = Done("handleComparisonChange", "TypeError", "")
            /\ UNCHANGED <<pairwiseMatrix, weights, consistency, utilityScores, view,
                           judgedFor, derivedFor>>

\* --- Step 4 ---------------------------------------------------------------

\* {...prev, [optionId]: {...prev[optionId], [criterionId]: value}}
WithValue(prev, optionId, criterionId, value) ==
    [o \in DOMAIN prev \cup {optionId} |->
        [c \in (IF o \in DOMAIN prev THEN DOMAIN prev[o] ELSE {})
               \cup (IF o = optionId THEN {criterionId} ELSE {}) |->
            IF o = optionId /\ c = criterionId THEN value ELSE prev[o][c]]]

handleValueChange(optionId, criterionId, value) ==
    /\ UserEvent
    /\ optionValues' = WithValue(optionValues, optionId, criterionId, StrV(value))
    /\ UNCHANGED <<given, returned, saved>>
    /\ UNCHANGED <<objective, criteria, options, pairwiseMatrix, utilityFunctions,
                   reading, judgedFor>>
    /\ Effects("handleValueChange", "main")

\* --- App ------------------------------------------------------------------

\* JSON.parse(JSON.stringify(n)) for a number: null for NaN and the infinities
JSONNumber(n) == IF IsFinite(n) THEN n ELSE Null

\* what JSON.parse gives for JSON.stringify({objective, criteria, options,
\* pairwiseMatrix, utilityFunctions, optionValues}); strings, and the values
\* of optionValues, which are strings, come back as they are
Stringified ==
    [objective |-> objective,
     criteria |-> criteria,
     options |-> options,
     pairwiseMatrix |->
        Vec(Len(pairwiseMatrix), LAMBDA i :
            Vec(Len(pairwiseMatrix[i]), LAMBDA j : JSONNumber(pairwiseMatrix[i][j]))),
     utilityFunctions |->
        [c \in DOMAIN utilityFunctions |->
            [utilityFunctions[c] EXCEPT
                !.points = Vec(Len(@), LAMBDA k :
                               [x |-> JSONNumber(@[k].x), y |-> JSONNumber(@[k].y)]),
                !.qualitativeLevels =
                    Vec(Len(@), LAMBDA k :
                        [label |-> @[k].label, utility |-> JSONNumber(@[k].utility)])]],
     optionValues |-> optionValues]

\* the download of ahp_data.json; the six fields as they were, and the
\* weights, the consistency and the final scores on screen at that moment,
\* are kept beside it
handleSave ==
    /\ view = "main"
    /\ saved' = <<[document |-> Stringified,
                   fields |-> [objective |-> objective,
                               criteria |-> criteria,
                               options |-> options,
                               pairwiseMatrix |-> pairwiseMatrix,
                               utilityFunctions |-> utilityFunctions,
                               optionValues |-> optionValues],
                   weights |-> weights,
                   consistency |-> consistency,
                   finalScores |-> Step5FinalScores(options, criteria, weights,
                                                     utilityScores)]>>
    /\ last' = Done("handleSave", "", "")
    /\ UNCHANGED <<given, returned>>
    /\ UNCHANGED <<objective, criteria, options, pairwiseMatrix, weights,
                   consistency, utilityFunctions, utilityScores, optionValues,
                   view, reading, judgedFor, derivedFor, edits>>

\* event.target.files[0] when no file is selected
NoFile == Undefined

\* a file whose text is no JSON: JSON.parse throws a SyntaxError
NotJSON == [syntaxError |-> TRUE]

\* returns at once without a file; otherwise the reader is started and its
\* onload runs later
handleLoad(file) ==
    /\ UserEvent
    /\ reading' = IF file = NoFile THEN reading ELSE reading \cup {file}
    /\ last' = Done("handleLoad", "", "")
    /\ UNCHANGED <<given, returned, saved>>
    /\ UNCHANGED <<objective, criteria, options, pairwiseMatrix, weights,
                   consistency, utilityFunctions, utilityScores, optionValues,
                   view, judgedFor, derivedFor>>

\* JSON.parse that gives an empty document for a text that is no JSON
JSONParseLenient(file) ==
    [thrown |-> FALSE,
     data |-> IF file = NotJSON THEN SavedFile(<<>>, <<>>) ELSE file]

\* JSON.parse(e.target.result): a file is written here as the document its
\* text stands for, except NotJSON, for which JSON.parse throws
JSONParse(file) ==
    IF file = NotJSON THEN [thrown |-> TRUE, data |-> Undefined]
    ELSE [thrown |-> FALSE, data |-> file]

\* reader.onload: JSON.parse, then the six setters; a SyntaxError is caught
\* (and alerted) before any setter is called
ReaderOnLoad(file) ==
    /\ view # "blank"
    /\ reading' = reading \ {file}
    /\ UNCHANGED <<given, returned, saved>>
    /\ UNCHANGED edits
    /\ \E parsed \in {JSONParse(file)} :
          IF parsed.thrown
          THEN /\ last' = Done("reader.onload", "", "SyntaxError")
               /\ UNCHANGED <<objective, criteria, options, pairwiseMatrix, weights,
                              consistency, utilityFunctions, utilityScores,
                              optionValues, view, judgedFor, derivedFor>>
          ELSE /\ objective' = parsed.data.objective
               /\ criteria' = parsed.data.criteria
               /\ options' = parsed.data.options
               /\ pairwiseMatrix' = parsed.data.pairwiseMatrix
               /\ utilityFunctions' = parsed.data.utilityFunctions
               /\ optionValues' = parsed.data.optionValues
               /\ judgedFor' = JudgedForItems(parsed.data.criteria,
                                              Len(parsed.data.pairwiseMatrix))
               /\ Effects("reader.onload", view)

\* Step 5's button is there when weights.length > 0 and utilityScores has keys;
\* ReportPage renders nothing and calls onBack only when it is given no data,
\* so the report view is never left
handleGenerateReport ==
    /\ UserEvent
    /\ Len(weights) > 0
    /\ DOMAIN utilityScores # {}
    /\ UNCHANGED <<given, returned, saved>>
    /\ UNCHANGED <<objective, criteria, options, pairwiseMatrix, utilityFunctions,
                   optionValues, reading, judgedFor>>
    /\ Effects("handleGenerateReport", "report")

\* the files that can be picked: those of Files, one that is no JSON, and
\* the document saved last
PickedFiles ==
    Files \cup {NotJSON} \cup {saved[k].document : k \in 1..Len(saved)}

Next ==
    \/ \E text \in NewCriterionTexts : addCriterion(text)
    \/ \E text \in NewOptionTexts : addOption(text)
    \/ \E index \in 0..(Len(criteria) - 1) : removeCriterion(index)
    \/ \E index \in 0..(Len(options) - 1) : removeOption(index)
    \/ \E type \in {"CRITERIA", "OPTIONS"} :
           \E move \in DragMoves :
               /\ move[1] < Len(IF type = "CRITERIA" THEN criteria ELSE options)
               /\ move[2] < Len(IF type = "CRITERIA" THEN criteria ELSE options)
               /\ \E destination \in {<<>>, <<move[2]>>} :
                      onDragEnd(type, move[1], destination)
    \/ \E pair \in MovedSliders : \E position \in SliderPositions :
           /\ pair[2] < Len(criteria)
           /\ handleComparisonChange(pair[1], pair[2], handleSliderChange(position))
    \/ \E o \in EditedOptions \cap (0..(Len(options) - 1)) :
           \E k \in 1..Len(criteria) :
               \E text \in CellTexts(utilityFunctions, criteria[k].id) :
                   handleValueChange(options[o + 1].id, criteria[k].id, text)
    \/ \E file \in PickedFiles \cup {NoFile} : handleLoad(file)
    \/ \E file \in reading : ReaderOnLoad(file)
    \/ handleGenerateReport

Spec == Init /\ [][Next]_vars

\* --- the sliders alone ------------------------------------------------------
\* the positions of <input type="range" min="-8" max="8" step="1">
SliderRange == -8..8

\* <<i, j>> of every slider of the mounted app
SliderPairs == {<<i, j>> : i, j \in 0..3} \ {<<i, j>> \in (0..3) \X (0..3) : i >= j}

\* how many sliders are off the judgment of the initial matrix at a time:
\* with more, the exact fractions of the weights and of the consistency ratio
\* leave the range of the integers they are computed with
MaxSlidersMoved == 1

\* the sliders whose judgment is not the initial one
SlidersMoved(matrix) ==
    {pair \in SliderPairs :
        matrix[pair[1] + 1][pair[2] + 1]
            # InitialPairwiseMatrix[pair[1] + 1][pair[2] + 1]}

\* the mounted app on which only sliders are moved, to any position
NextSliders ==
    \E pair \in SliderPairs : \E position \in SliderRange :
        /\ Cardinality(SlidersMoved(WithComparison(pairwiseMatrix, pair[1], pair[2],
                                                    handleSliderChange(position))))
              <= MaxSlidersMoved
        /\ handleComparisonChange(pair[1], pair[2], handleSliderChange(position))

SpecSliders == Init /\ [][NextSliders]_vars

\* --- saving, editing, loading again ----------------------------------------
\* The behaviours of Spec, and those that go on from the state the app is in
\* after removeCriterion(index) on the mounted app: criteria shorter than the
\* matrix, weights and consistency still those of the mounted app, the scores
\* recomputed by Step 4's effect.
InitRoundTrip ==
    \/ Init
    \/ \E index \in 0..3 :
          /\ objective = "<DESCRIPTION> Decision making to select the best option"
          /\ criteria = Splice1(InitialCriteria, index)
          /\ options = InitialOptions
          /\ pairwiseMatrix = InitialPairwiseMatrix
          /\ weights = calculateWeights(normalizeMatrix(InitialPairwiseMatrix))
          /\ consistency = checkConsistency(InitialPairwiseMatrix)
          /\ utilityFunctions = InitialUtilityFunctions
          /\ utilityScores = calculateScores(InitialOptions,
                                             Splice1(InitialCriteria, index), <<>>,
                                             InitialUtilityFunctions).values
          /\ optionValues = <<>>
          /\ view = "main"
          /\ reading = {}
          /\ judgedFor = JudgedForItems(InitialCriteria, 4)
          /\ derivedFor = Vec(4, LAMBDA k : InitialCriteria[k].id)
          /\ edits = 0
          /\ saved = <<>>
          /\ last = Done("removeCriterion", "", "")
          /\ given = <<>>
          /\ returned = <<>>

\* the operations of Next, and handleSave
NextRoundTrip == Next \/ handleSave

SpecRoundTrip == InitRoundTrip /\ [][NextRoundTrip]_vars

\* What App computes from pairwiseMatrix while it renders: the finalScores
\* memo in every render, and in the report view the weights and the
\* consistency of reportData (<<>> when there is no report).
RenderedFromMatrix ==
    [finalScores |-> AppFinalScores(criteria, options, pairwiseMatrix, utilityFunctions),
     reportData |->
        IF view = "report"
        THEN <<[weights |-> calculateWeights(normalizeMatrix(pairwiseMatrix)),
                consistency |-> checkConsistency(pairwiseMatrix)]>>
        ELSE <<>>]

\* ------------------------------------------------------------------------
\* The calculation helpers called on their own: the arguments are given at
\* the start, the call returns once. The App component stays as mounted.
\* ------------------------------------------------------------------------

\* the call has not returned yet
Pending == returned = <<>>

\* the call of fn returns result
Returns(fn, result) ==
    /\ given.fn = fn
    /\ Pending
    /\ returned' = <<result>>
    /\ UNCHANGED <<appVars, given>>

\* the call of fn has returned
Returned(fn) == given # <<>> /\ given.fn = fn /\ returned # <<>>

\* --- calculateConsistency -------------------------------------------------

\* the largest matrix size given to calculateConsistency
MaxSize == 11

\* the n x n matrix of 1 with [0][1] = upper and [1][0] = lower
OnesWith(n, upper, lower) ==
    Vec(n, LAMBDA i : Vec(n, LAMBDA j :
        IF i = 1 /\ j = 2 THEN upper ELSE IF i = 2 /\ j = 1 THEN lower ELSE Z(1)))

\* entries of the matrices of size 1 and 2
SmallEntries == {Z(1), Z(5), Q(1, 5), Z(0), NaN}

\* entries [0][1] and [1][0] of the matrices of size 3 and more
PairEntries == {Z(1), Z(2), Q(1, 2), Q(337, 250)}

SmallMatrices ==
    {<<>>}
    \cup {<< <<a>> >> : a \in SmallEntries}
    \cup {<< <<a, b>>, <<c, d>> >> : a \in SmallEntries, b \in SmallEntries,
                                     c \in SmallEntries, d \in SmallEntries}

SmallWeights == {<<>>, <<Q(1, 2), Q(1, 2)>>, <<NaN, Z(0)>>}

\* weight vectors of length n: equal weights, a zero weight, weights 1 : 2 : ... : n
WeightsOfLength(n) ==
    { Vec(n, LAMBDA k : Q(1, n)),
      Vec(n, LAMBDA k : IF k = 1 THEN Z(0) ELSE Q(1, n - 1)),
      Vec(n, LAMBDA k : Q(2 * k, n * (n + 1))) }

ConsistencyCalls ==
    {[fn |-> "calculateConsistency", pairwiseMatrix |-> m, weights |-> w] :
        m \in SmallMatrices, w \in SmallWeights}
    \cup UNION {
        {[fn |-> "calculateConsistency", pairwiseMatrix |-> OnesWith(n, e[1], e[2]),
          weights |-> w] : e \in PairEntries \X PairEntries, w \in WeightsOfLength(n)} :
        n \in 3..MaxSize}

InitConsistency ==
    /\ AppMounted
    /\ given \in ConsistencyCalls
    /\ returned = <<>>

CallCalculateConsistency ==
    Returns("calculateConsistency",
            calculateConsistency(given.pairwiseMatrix, given.weights))

NextConsistency == CallCalculateConsistency

SpecConsistency == InitConsistency /\ [][NextConsistency]_vars

\* --- checkConsistency -----------------------------------------------------

\* the largest entry of a weight vector a matrix is derived from
MaxWeight == 3

\* matrix[i][j] = w[i] / w[j]
RatioMatrix(w) ==
    Vec(Len(w), LAMBDA i : Vec(Len(w), LAMBDA j : Q(w[i], w[j])))

\* the reciprocal 3 x 3 matrix with a, b, c above the diagonal
Reciprocal3(a, b, c) ==
    << <<Z(1), a, b>>,
       <<NDiv(Z(1), a), Z(1), c>>,
       <<NDiv(Z(1), b), NDiv(Z(1), c), Z(1)>> >>

\* judgments above the diagonal
Judgments == {Z(1), Z(3), Q(1, 3), Z(9), Q(1, 7)}

CheckedMatrices ==
    {RatioMatrix(w) : w \in [1..3 -> 1..MaxWeight] \cup [1..4 -> 1..MaxWeight]}
    \cup {Reciprocal3(a, b, c) : a \in Judgments, b \in Judgments, c \in Judgments}
    \cup {InitialPairwiseMatrix, OnesWith(3, Z(2), Z(2))}

CheckConsistencyCalls ==
    {[fn |-> "checkConsistency", matrix |-> m] : m \in CheckedMatrices}

InitCheckConsistency ==
    /\ AppMounted
    /\ given \in CheckConsistencyCalls
    /\ returned = <<>>

CallCheckConsistency ==
    Returns("checkConsistency", checkConsistency(given.matrix))

NextCheckConsistency == CallCheckConsistency

SpecCheckConsistency == InitCheckConsistency /\ [][NextCheckConsistency]_vars

\* ------------------------------------------------------------------------
\* safeEval on its own: formula strings and arguments
\* ------------------------------------------------------------------------

\* 100 - x/1000
sSpecExample == <<"1", "0", "0", " ", "-", " ", "x", "/", "1", "0", "0", "0">>

\* x*
sTrailingStar == <<"x", "*">>

\* x; alert(1)
sInjection == <<"x", ";", " ", "a", "l", "e", "r", "t", "(", "1", ")">>

\* 2**3
sPower == <<"2", "*", "*", "3">>

\* x++
sIncrement == <<"x", "+", "+">>

\* 017
sLegacyOctal == <<"0", "1", "7">>

\* 0/0
sZeroByZero == <<"0", "/", "0">>

\* x/0
sXByZero == <<"x", "/", "0">>

\* x/x
sXByX == <<"x", "/", "x">>

\* x()
sCallX == <<"x", "(", ")">>

\* x;
sStatement == <<"x", ";">>

\* sums, differences, products and quotients of numbers, x and parenthesised expressions
GrammarFormulas ==
    {
      sSpecExample,
      sZeroByZero,
      sXByZero,
      sXByX,
      <<"x">>,
      <<"4", "2">>,
      <<"1", ".", "5", " ", "+", " ", "x">>,
      <<"(", "x", " ", "+", " ", "1", ")", " ", "*", " ", "2">>,
      <<"x", " ", "-", " ", "1", " ", "-", " ", "1">>,
      <<"2", " ", "*", " ", "(", "3", " ", "+", " ", "x", ")", " ", "/", " ", "4">>,
      <<"(", "(", "x", ")", ")">>,
      <<"x", "*", "3", " ", "-", " ", "x", "/", "2">>,
      <<"0", " ", "*", " ", "(", "1", "/", "x", ")">>
    }

\* other strings made of characters the test of line 115 lets through
OtherFormulas ==
    {
      sTrailingStar,
      sPower,
      sIncrement,
      sLegacyOctal,
      sCallX,
      <<>>,
      <<"(", ")">>,
      <<"1", " ", "2">>,
      <<"(", "x">>,
      <<"x", ")">>,
      <<"-", "x">>,
      <<"-", "-", "x">>,
      <<"x", ".", "x">>,
      <<"1", "\n", "2">>,
      <<"x", "/", "/", "1", "\n", "+", "2">>,
      <<"/", "x", "/", "*", "*", "0">>,
      <<"0", "x", "1", "0">>,
      <<"x", " ", "+", " ", "*", " ", "2">>,
      <<"1", ".", ".", "5">>
    }

\* strings holding a character the test of line 115 rejects
RejectedFormulas ==
    {
      sInjection,
      sStatement,
      <<"2", "e", "3">>,
      <<"x", ",", "1">>,
      <<"M", "a", "t", "h", ".", "m", "a", "x", "(", "x", ",", "1", ")">>,
      <<"x", "^", "2">>,
      <<"x", " ", "%", " ", "2">>,
      <<"X">>,
      <<"x", " ", "=", " ", "1">>,
      <<"1", ";", "2">>,
      <<"x", " ", ">", " ", "0">>
    }

FormulaStrings == GrammarFormulas \cup OtherFormulas \cup RejectedFormulas

\* values of x
FormulaArguments == {Z(0), Z(1), Z(5), Z(-3), Z(50000)}

SafeEvalCalls ==
    {[fn |-> "safeEval", expr |-> e, x |-> v] : e \in FormulaStrings, v \in FormulaArguments}

InitSafeEval ==
    /\ AppMounted
    /\ given \in SafeEvalCalls
    /\ returned = <<>>

CallSafeEval ==
    Returns("safeEval", safeEval(given.expr, given.x))

NextSafeEval == CallSafeEval

SpecSafeEval == InitSafeEval /\ [][NextSafeEval]_vars

\* ------------------------------------------------------------------------
\* interpolate on its own: lists of points, sorted or not, and targets
\* ------------------------------------------------------------------------

MaxPoints == 3

PointValues == {0, 5, 100}

PointUtilities == {0, 42, 100}

Points == {Point(x, y) : x \in PointValues, y \in PointUtilities}

PointLists == UNION {[1..n -> Points] : n \in 0..MaxPoints}

Targets == {Z(-5), Z(0), Z(3), Z(5), Z(50), Z(100), Z(150)}

InterpolateCalls ==
    {[fn |-> "interpolate", x |-> v, points |-> ps] : v \in Targets, ps \in PointLists}

InitInterpolate ==
    /\ AppMounted
    /\ given \in InterpolateCalls
    /\ returned = <<>>

CallInterpolate ==
    Returns("interpolate", interpolate(given.x, given.points))

NextInterpolate == CallInterpolate

SpecInterpolate == InitInterpolate /\ [][NextInterpolate]_vars

\* ------------------------------------------------------------------------
\* The utility of one cell on its own: utility functions of the three
\* kinds and raw values
\* ------------------------------------------------------------------------

sLowerCaseLow == <<"l", "o", "w">>
sMinus20 == <<"-", "2", "0">>
s150 == <<"1", "5", "0">>
sNotANumber == <<"a", "b", "c">>
sNumberThenText == <<"1", "2", "a", "b", "c">>

\* levels whose utilities lie inside and outside [0, 100]
LevelsTried ==
    {<<>>, <<Level(sLow, 150), Level(sMedium, 50), Level(sHigh, -20)>>}

FormulasTried ==
    {<<>>, <<"x">>, sSpecExample, sXByZero, sZeroByZero, sTrailingStar, sInjection}

PointsTried ==
    {<<>>, <<Point(5, 42)>>, <<Point(100, 150), Point(0, -20)>>}

UtilityFunctionsTried ==
    {UtilityFunction("qualitative", "table", <<>>, <<>>, levels) : levels \in LevelsTried}
    \cup {UtilityFunction("quantitative", "formula", formula, <<Point(0, 0)>>, <<>>) :
              formula \in FormulasTried}
    \cup {UtilityFunction("quantitative", "table", <<"x">>, points, <<>>) :
              points \in PointsTried}

\* what optionValues[option.id]?.[criterion.id] can be
RawValues ==
    {Undefined, NumV(Z(50)), NumV(PosInf)}
    \cup {StrV(text) : text \in {<<>>, sLow, sHigh, sLowerCaseLow, sMedium \o <<" ">>, s50,
                                 s150, sMinus20, sNotANumber, sNumberThenText}}

\* option ids and criterion ids for calculateOptionValues, which reads the raw
\* value from the option id: "length" gives its length, "0" its first character
OptionIdsTried == {sA, sLow, s150}

CriterionIdsTried == {sCost, sLength, <<"0">>}

CellCalls ==
    {[fn |-> f, func |-> func, raw |-> raw] :
        f \in {"utility", "calculateScores"},
        func \in UtilityFunctionsTried, raw \in RawValues}
    \cup {[fn |-> "calculateOptionValues", func |-> func, optionId |-> o, criterionId |-> c] :
              func \in UtilityFunctionsTried, o \in OptionIdsTried, c \in CriterionIdsTried}

InitCell ==
    /\ AppMounted
    /\ given \in CellCalls
    /\ returned = <<>>

\* the body of the two loops for one cell, up to the clamp
CallUtility ==
    Returns("utility", UtilityOf([c \in {sCost} |-> given.func], sCost, given.raw))

\* Step 4's calculateScores for one option and one criterion
CallCalculateScores ==
    Returns("calculateScores",
            calculateScores(<<Item(sA)>>, <<Item(sCost)>>,
                            [o \in {sA} |-> [c \in {sCost} |-> given.raw]],
                            [c \in {sCost} |-> given.func]))

\* calculateOptionValues for one option and one criterion
CallCalculateOptionValues ==
    Returns("calculateOptionValues",
            calculateOptionValues(<<Item(given.optionId)>>, <<Item(given.criterionId)>>,
                                  [c \in {given.criterionId} |-> given.func]))

NextCell == CallUtility \/ CallCalculateScores \/ CallCalculateOptionValues

SpecCell == InitCell /\ [][NextCell]_vars

\* ------------------------------------------------------------------------
\* Properties
\* ------------------------------------------------------------------------

\* the matrix is square, n x n with n > 0, and every entry is finite and > 0
PositiveMatrix(m) ==
    /\ Len(m) > 0
    /\ \A i \in 1..Len(m) :
           /\ Len(m[i]) = Len(m)
           /\ \A j \in 1..Len(m) : IsFinite(m[i][j]) /\ NLt(Z(0), m[i][j])

\* the weights in the state are the ones derived from the matrix in the state
WeightsCurrent ==
    Len(criteria) > 0 /\ Len(pairwiseMatrix) = Len(criteria)

\* what the report page is given as its ranking
ReportRanking ==
    AppSortedOptions(options,
        AppFinalScores(criteria, options, pairwiseMatrix, utilityFunctions))

\* what Step 5 shows as its ranking
Step5Ranking ==
    Step5SortedOptions(options,
        Step5FinalScores(options, criteria, weights, utilityScores))

\* C1: criteria, pairwiseMatrix and weights stay aligned by index: the
\* matrix has one row and one column per criterion, cell [i][j] holds the
\* judgement made for criterion i against criterion j, and weights[i] is the
\* weight derived for criterion i, also after a reorder or a removal.
C1_IndexAlignment ==
    /\ Len(pairwiseMatrix) = Len(criteria)
    /\ Len(weights) = Len(criteria)
    /\ Len(derivedFor) = Len(criteria)
    /\ \A i \in 1..Len(criteria) :
           /\ derivedFor[i] = criteria[i].id
           /\ Len(pairwiseMatrix[i]) = Len(criteria)
           /\ \A j \in 1..Len(criteria) :
                  judgedFor[i][j] = <<criteria[i].id, criteria[j].id>>

\* the row and column added for a new criterion hold 1, the rest is kept
ExtendedWithOnes(before, after) ==
    /\ Len(after) = Len(before) + 1
    /\ \A i \in 1..Len(after) :
           /\ Len(after[i]) = Len(after)
           /\ \A j \in 1..Len(after) :
                  after[i][j] = IF i <= Len(before) /\ j <= Len(before[i])
                                THEN before[i][j] ELSE Z(1)

\* C2: addCriterion extends pairwiseMatrix by a row and a column of 1 and
\* gives the new criterion a utilityFunctions entry, in the same step.
C2_AddCriterionExtends ==
    [][\A text \in NewCriterionTexts :
           addCriterion(text) =>
               /\ ExtendedWithOnes(pairwiseMatrix, pairwiseMatrix')
               /\ Trim(text) \in DOMAIN utilityFunctions']_vars

\* C3: removeCriterion(index) takes the criterion, its matrix row and
\* column, and its utilityFunctions entry out in one step.
C3_RemoveCriterionAtomic ==
    [][\A index \in 0..(Len(criteria) - 1) :
           removeCriterion(index) =>
               /\ pairwiseMatrix' =
                      Vec(Len(pairwiseMatrix) - 1, LAMBDA i :
                          Splice1(Splice1(pairwiseMatrix, index)[i], index))
               /\ DOMAIN utilityFunctions' =
                      DOMAIN utilityFunctions \ {criteria[index + 1].id}]_vars

\* C4: the pairwise matrix is reciprocal at all times: the diagonal is 1
\* and M[j][i] = 1 / M[i][j].
C4_Reciprocity ==
    \A i \in 1..Len(pairwiseMatrix) :
        /\ pairwiseMatrix[i][i] = Z(1)
        /\ \A j \in 1..Len(pairwiseMatrix) :
               pairwiseMatrix[j][i] = NDiv(Z(1), pairwiseMatrix[i][j])

\* the option ids of a ranking, best first
RankedIds(ranking) ==
    Bind(ranking, LAMBDA r : Vec(Len(r), LAMBDA k : r[k].id))

\* C5: the ranking given to the report page lists the options in the same
\* order as the ranking Step 5 shows.
C5_RankingsAgree ==
    RankedIds(ReportRanking) = RankedIds(Step5Ranking)

\* a utility entry as the score sum takes it: a missing or NaN entry is 0
C6_Utility(grid, optionId, criterionId) ==
    IF optionId \in DOMAIN grid
    THEN IF criterionId \in DOMAIN grid[optionId]
         THEN IF IsNaN(grid[optionId][criterionId]) THEN Z(0)
              ELSE grid[optionId][criterionId]
         ELSE Z(0)
    ELSE Z(0)

\* a weight as the score sum takes it: a missing or NaN weight is 0
C6_Weight(w, k) ==
    IF k <= Len(w) THEN IF IsNaN(w[k]) THEN Z(0) ELSE w[k] ELSE Z(0)

\* sum over the criteria of utility x weight
C6_Score(optionId, w, grid) ==
    NSum(Vec(Len(criteria), LAMBDA k :
        NMul(C6_Utility(grid, optionId, criteria[k].id), C6_Weight(w, k))))

\* the same sum where only a missing entry is 0
C6_ScoreMissingOnly(optionId, w, grid) ==
    NSum(Vec(Len(criteria), LAMBDA k :
        NMul(IF optionId \in DOMAIN grid
             THEN IF criteria[k].id \in DOMAIN grid[optionId]
                  THEN grid[optionId][criteria[k].id] ELSE Z(0)
             ELSE Z(0),
             IF k <= Len(w) THEN w[k] ELSE Z(0))))

\* the scores calculateFinalScores returns for the report are those of
\* Sum(optionId, weights, grid)
ReportScoresAre(Sum(_, _, _)) ==
    (Len(criteria) > 0 /\ Len(options) > 0) =>
        \E cov \in {calculateOptionValues(options, criteria, utilityFunctions)} :
        \E w \in {calculateWeights(normalizeMatrix(pairwiseMatrix))} :
            ~cov.thrown =>
                \E fs \in {calculateFinalScores(options, criteria, w, cov.values)} :
                    /\ Len(fs) = Len(options)
                    /\ \A k \in 1..Len(options) :
                           /\ fs[k].optionId = options[k].id
                           /\ fs[k].score = Sum(options[k].id, w, cov.values)

StableDescending(ranking, scores) ==
    \E r \in {ranking} : \E sc \in {scores} :
        /\ Len(r) = Len(options)
        /\ \A p \in 1..Len(options) :
               \E rank \in {1 + Cardinality({q \in 1..Len(options) :
                                \/ NLt(sc[p], sc[q])
                                \/ sc[q] = sc[p] /\ q < p})} :
                   /\ r[rank].id = options[p].id
                   /\ r[rank].content = options[p].content
                   /\ r[rank].score = sc[p]

\* the scores Step 5 ranks the options by, in the order of the options list
Step5RankScores ==
    Bind(Step5FinalScores(options, criteria, weights, utilityScores), LAMBDA fs :
        Vec(Len(options), LAMBDA p : OrZero(fs[options[p].id])))

\* the scores the report ranks the options by
ReportRankScores ==
    Bind(AppFinalScores(criteria, options, pairwiseMatrix, utilityFunctions), LAMBDA fs :
        Vec(Len(options), LAMBDA p : FoundScore(fs, options[p].id)))

C8_RowMean(m, i) ==
    NDiv(NSum(Vec(Len(m), LAMBDA j :
             NDiv(m[i][j], NSum(Vec(Len(m), LAMBDA r : m[r][j]))))),
         Z(Len(m)))

\* C8: for a positive n x n matrix the derived weights,
\* calculateWeights(normalizeMatrix(M)), have n entries and entry i is the
\* mean over j of M[i][j] / (sum of column j); the empty matrix gives [].
C8_WeightsAreRowMeans ==
    /\ PositiveMatrix(pairwiseMatrix) =>
           \E w \in {calculateWeights(normalizeMatrix(pairwiseMatrix))} :
               /\ Len(w) = Len(pairwiseMatrix)
               /\ \A i \in 1..Len(pairwiseMatrix) :
                      w[i] = C8_RowMean(pairwiseMatrix, i)
               /\ WeightsCurrent => weights = w
    /\ Len(pairwiseMatrix) = 0 =>
           calculateWeights(normalizeMatrix(pairwiseMatrix)) = <<>>

\* a matrix the user has changed with a slider, and its weights
C8_Witness ==
    /\ PositiveMatrix(pairwiseMatrix)
    /\ pairwiseMatrix # InitialPairwiseMatrix
    /\ Len(pairwiseMatrix) = 4
    /\ WeightsCurrent
    /\ \A i \in 1..4 : weights[i] = C8_RowMean(pairwiseMatrix, i)

\* C9: the weights derived from a positive matrix sum to 1, and so do the
\* weights in the state whenever they are derived from the current matrix.
C9_WeightsSumToOne ==
    PositiveMatrix(pairwiseMatrix) =>
        /\ NSum(calculateWeights(normalizeMatrix(pairwiseMatrix))) = Z(1)
        /\ NSum(calculateWeights(pairwiseMatrix)) = Z(1)
        /\ WeightsCurrent => NSum(weights) = Z(1)

\* the weights of a loaded matrix that is positive but not reciprocal
C9_Witness ==
    /\ pairwiseMatrix = << <<Z(1), Z(2)>>, <<Z(3), Z(1)>> >>
    /\ WeightsCurrent
    /\ weights = <<Q(11, 24), Q(13, 24)>>

\* some column of the matrix sums to 0
HasZeroSumColumn(m) ==
    /\ Len(m) > 0
    /\ \A i \in 1..Len(m) : Len(m[i]) = Len(m)
    /\ \E j \in 1..Len(m) : NSum(Vec(Len(m), LAMBDA i : m[i][j])) = Z(0)

\* C10: a column that sums to 0 is left as it is, and no weight is NaN,
\* from calculateWeights alone and from normalizeMatrix followed by
\* calculateWeights.
C10_ZeroColumnNeverNaN ==
    HasZeroSumColumn(pairwiseMatrix) =>
        /\ \A i \in 1..Len(pairwiseMatrix) :
               ~IsNaN(calculateWeights(pairwiseMatrix)[i])
        /\ \A i \in 1..Len(pairwiseMatrix) :
               ~IsNaN(calculateWeights(normalizeMatrix(pairwiseMatrix))[i])
        /\ WeightsCurrent => \A i \in 1..Len(weights) : ~IsNaN(weights[i])

\* C11: for a matrix of size 0, 1 or 2, whatever its entries and whatever
\* the weights, calculateConsistency returns cr 0 and isConsistent true.
C11_SmallMatrixIsConsistent ==
    (Returned("calculateConsistency") /\ Len(given.pairwiseMatrix) <= 2) =>
        /\ WEq(returned[1].cr, Wide(Z(0)))
        /\ returned[1].isConsistent = TRUE

\* a 2 x 2 matrix that is not reciprocal, with NaN weights
C11_Witness ==
    /\ Returned("calculateConsistency")
    /\ given.pairwiseMatrix = << <<Z(1), Z(5)>>, <<Z(5), Z(1)>> >>
    /\ given.weights = <<NaN, Z(0)>>
    /\ returned[1].isConsistent

\* the random index of the claim's table, in hundredths
C12_RI(n) ==
    IF n > 10 THEN 149
    ELSE <<0, 0, 58, 90, 112, 124, 132, 141, 145, 149>>[n]

\* CR = CI / RI by the claim's formulas
C12_CR(m, w) ==
    Bind(Len(m), LAMBDA n :
    Bind(Vec(n, LAMBDA i :
             IF w[i] = Z(0) THEN Z(0)
             ELSE NDiv(NSum(Vec(n, LAMBDA j : NMul(m[i][j], w[j]))), w[i])),
         LAMBDA cv :
    Bind(NDiv(NSum(cv), Z(n)), LAMBDA lambdaMax :
    Bind(NDiv(NSub(lambdaMax, Z(n)), Z(n - 1)), LAMBDA ci :
        NDiv(ci, Q(C12_RI(n), 100))))))

\* C12: for n >= 3, calculateConsistency returns CR = CI / RI with the
\* claim's ws, cv, lambdaMax, CI and RI table (1.49 beyond 10), and
\* isConsistent is true exactly when CR < 0.1.
C12_ConsistencyRatio ==
    (Returned("calculateConsistency") /\ Len(given.pairwiseMatrix) >= 3) =>
        \E cr \in {C12_CR(given.pairwiseMatrix, given.weights)} :
            /\ WEq(returned[1].cr, Wide(cr))
            /\ returned[1].isConsistent = NLt(cr, Q(1, 10))

\* a 3 x 3 matrix whose CR is exactly 0.1: it is not consistent
C12_Witness ==
    /\ Returned("calculateConsistency")
    /\ given.pairwiseMatrix = OnesWith(3, Q(337, 250), Z(1))
    /\ given.weights = <<Q(1, 3), Q(1, 3), Q(1, 3)>>
    /\ WEq(returned[1].cr, Wide(Q(1, 10)))
    /\ ~returned[1].isConsistent

\* the matrix is w[i] / w[j] for a positive vector w (its first column)
C13_DerivedFromWeights(m) ==
    /\ PositiveMatrix(m)
    /\ \A i \in 1..Len(m) : \A j \in 1..Len(m) : m[i][j] = NDiv(m[i][1], m[j][1])

\* C13: a matrix of size n >= 3 with matrix[i][j] = w[i] / w[j] for a
\* positive weight vector w gets, from checkConsistency, the consistency
\* ratio 0 and isConsistent true.
C13_RatioMatrixIsConsistent ==
    (/\ Returned("checkConsistency")
     /\ Len(given.matrix) >= 3
     /\ C13_DerivedFromWeights(given.matrix)) =>
        /\ WEq(returned[1].cr, Wide(Z(0)))
        /\ returned[1].isConsistent = TRUE

\* the matrix of the weights 1 : 2 : 3 : 1
C13_Witness ==
    /\ Returned("checkConsistency")
    /\ given.matrix = RatioMatrix(<<1, 2, 3, 1>>)
    /\ WEq(returned[1].cr, Wide(Z(0)))
    /\ returned[1].isConsistent

\* C14: the consistency ratio the app holds is never below 0.
C14_RatioNeverNegative ==
    /\ ~WIsNaN(consistency.cr)
    /\ ~WLt(consistency.cr, Wide(Z(0)))

\* C14, for checkConsistency on its own: the ratio of a positive reciprocal
\* matrix is not below 0.
C14_ReciprocalRatioNonNegative ==
    (/\ Returned("checkConsistency")
     /\ PositiveMatrix(given.matrix)
     /\ \A i \in 1..Len(given.matrix) : \A j \in 1..Len(given.matrix) :
            given.matrix[j][i] = NDiv(Z(1), given.matrix[i][j])) =>
        /\ ~WIsNaN(returned[1].cr)
        /\ ~WLt(returned[1].cr, Wide(Z(0)))

\* C15: while the matrix size differs from the number of criteria, nothing
\* is computed from the matrix: no final scores and no report values.
C15_MismatchComputesNothing ==
    Len(pairwiseMatrix) # Len(criteria) =>
        /\ RenderedFromMatrix.finalScores = <<>>
        /\ RenderedFromMatrix.reportData = <<>>

\* C16: the weights and the consistency the app holds are those of the
\* current criteria and matrix, and there is one weight per criterion.
C16_DerivedValuesAreCurrent ==
    /\ Len(weights) = Len(criteria)
    /\ weights = calculateWeights(normalizeMatrix(pairwiseMatrix))
    /\ consistency = checkConsistency(pairwiseMatrix)

\* the strings of the grammar number | x | (expr) | expr (+|-|*|/) expr:
\* from position i on, operands and operators alternate and the parentheses
\* balance (operand: an operand is due; depth: the parentheses open)
C17_InGrammar[s \in Seq(STRING), i \in Nat, operand \in BOOLEAN, depth \in Nat] ==
    IF i > Len(s) THEN ~operand /\ depth = 0
    ELSE IF IsSpace(s[i]) THEN C17_InGrammar[s, i + 1, operand, depth]
    ELSE IF operand
    THEN IF s[i] = "(" THEN C17_InGrammar[s, i + 1, TRUE, depth + 1]
         ELSE IF s[i] = "x" THEN C17_InGrammar[s, i + 1, FALSE, depth]
         ELSE IF IsDigit(s[i])
         THEN Bind(SkipDigits(s, i), LAMBDA j :
                  C17_InGrammar[s, IF CharAt(s, j) = "." THEN SkipDigits(s, j + 1) ELSE j,
                                FALSE, depth])
         ELSE IF s[i] = "." /\ IsDigit(CharAt(s, i + 1))
         THEN C17_InGrammar[s, SkipDigits(s, i + 1), FALSE, depth]
         ELSE FALSE
    ELSE IF s[i] = ")" THEN depth > 0 /\ C17_InGrammar[s, i + 1, FALSE, depth - 1]
    ELSE IF s[i] \in {"+", "-", "*", "/"} THEN C17_InGrammar[s, i + 1, TRUE, depth]
    ELSE FALSE

\* C17: safeEval returns a number only for a string of the grammar
\* number | x | (expr) | expr (+|-|*|/) expr; every other string yields null.
C17_OnlyGrammarFormulasEvaluate ==
    Returned("safeEval") /\ returned[1] # Null
        => C17_InGrammar[given.expr, 1, TRUE, 0]

\* C17 (the example): "100 - x/1000" at 50000 gives 50, and "x*" fails
C17_SpecExamples ==
    Returned("safeEval") =>
        /\ given.expr = sSpecExample /\ given.x = Z(50000) => returned[1] = Z(50)
        /\ given.expr = sTrailingStar => returned[1] = Null

\* the characters the whitelist names
C18_AllowedChars ==
    {"x", "(", ")", "+", "-", "*", "/", ".", " ", "\t", "\n",
     "0", "1", "2", "3", "4", "5", "6", "7", "8", "9"}

\* C18: a formula string holding at least one character outside x, digits,
\* white space, ( ) + - * / . makes safeEval return null, whatever the rest
\* of the string would evaluate to.
C18_OtherCharactersFail ==
    Returned("safeEval")
        /\ (\E i \in 1..Len(given.expr) : given.expr[i] \notin C18_AllowedChars)
        => returned[1] = Null

\* "x; alert(1)" was given and null came back
C18_Witness ==
    /\ Returned("safeEval")
    /\ given.expr = sInjection
    /\ returned[1] = Null

\* the utility Step 4 stores for a numeric criterion whose formula is expr
\* and whose option value is x
C19_StoredUtility(expr, x) ==
    calculateScores(<<Item(sA)>>, <<Item(sCost)>>,
                    [o \in {sA} |-> [c \in {sCost} |-> NumV(x)]],
                    [c \in {sCost} |->
                        UtilityFunction("quantitative", "formula", expr, <<>>, <<>>)]
                   ).values[sA][sCost]

\* C19: when running the formula gives NaN (0/0, x/x at 0) or throws (the
\* text does not parse, or "x()" is called), safeEval returns null and not
\* the number 0; x/0 for x other than 0 comes back as +Infinity or -Infinity;
\* and Step 4 stores utility 0 for a formula that came back null.
C19_FailureIsNullNotZero ==
    Returned("safeEval") =>
        /\ \E r \in {NewFunction(given.expr, given.x)} :
               r.thrown \/ IsNaN(ToNumber(r.v)) => returned[1] = Null /\ returned[1] # Z(0)
        /\ given.expr \in {sZeroByZero, sTrailingStar, sCallX} => returned[1] = Null
        /\ given.expr = sXByX /\ given.x = Z(0) => returned[1] = Null
        /\ given.expr = sXByZero /\ given.x # Z(0)
               => returned[1] = (IF given.x[1] > 0 THEN PosInf ELSE NegInf)
        /\ returned[1] = Null => C19_StoredUtility(given.expr, given.x) = Z(0)

\* 0/0 was given and null came back
C19_Witness ==
    /\ Returned("safeEval")
    /\ given.expr = sZeroByZero
    /\ returned[1] = Null
    /\ C19_StoredUtility(given.expr, given.x) = Z(0)

\* the smallest and the largest value of a non-empty list of points
C20_MinValue(points) ==
    CHOOSE m \in {points[k].x : k \in 1..Len(points)} :
        \A k \in 1..Len(points) : NLe(m, points[k].x)

C20_MaxValue(points) ==
    CHOOSE m \in {points[k].x : k \in 1..Len(points)} :
        \A k \in 1..Len(points) : NLe(points[k].x, m)

\* utility is the straight line through p1 and p2 taken at v
C20_OnLine(utility, p1, p2, v) ==
    utility = NAdd(p1.y, NDiv(NMul(NSub(p2.y, p1.y), NSub(v, p1.x)), NSub(p2.x, p1.x)))

\* C20: interpolate returns 0 for no points; the point's utility for one
\* point; the utility of a point of smallest value when v is at or below the
\* smallest value; the utility of a point of largest value when v is at or
\* above the largest value; and otherwise the linear interpolation between
\* two points p1, p2 with p1.value < v <= p2.value and no point's value
\* strictly between theirs.  The list need not be sorted.
C20_Interpolation ==
    Returned("interpolate") =>
        \E v \in {given.x} : \E ps \in {given.points} : \E r \in {returned[1]} :
            IF Len(ps) = 0 THEN r = Z(0)
            ELSE IF Len(ps) = 1 THEN r = ps[1].y
            ELSE IF NLe(v, C20_MinValue(ps))
            THEN \E k \in 1..Len(ps) : ps[k].x = C20_MinValue(ps) /\ r = ps[k].y
            ELSE IF NLe(C20_MaxValue(ps), v)
            THEN \E k \in 1..Len(ps) : ps[k].x = C20_MaxValue(ps) /\ r = ps[k].y
            ELSE \E k1 \in 1..Len(ps) : \E k2 \in 1..Len(ps) :
                    /\ NLt(ps[k1].x, v) /\ NLe(v, ps[k2].x)
                    /\ \A k \in 1..Len(ps) :
                           ~(NLt(ps[k1].x, ps[k].x) /\ NLt(ps[k].x, ps[k2].x))
                    /\ C20_OnLine(r, ps[k1], ps[k2], v)

\* C20 (the examples): for [(0,0),(100,100)], -5 gives 0, 150 gives 100 and
\* 50 gives 50; for [(5,42)] every target gives 42
C20_SpecExamples ==
    Returned("interpolate") =>
        /\ given.points = <<Point(0, 0), Point(100, 100)>> =>
               /\ given.x = Z(-5) => returned[1] = Z(0)
               /\ given.x = Z(150) => returned[1] = Z(100)
               /\ given.x = Z(50) => returned[1] = Z(50)
        /\ given.points = <<Point(5, 42)>> => returned[1] = Z(42)

\* an unsorted list of three points and a target between two of them
C20_Witness ==
    /\ Returned("interpolate")
    /\ given.points = <<Point(100, 100), Point(0, 0), Point(5, 42)>>
    /\ given.x = Z(50)
    /\ returned[1] = Q(1320, 19)

\* two or more points of the list share a value
C21_HasDuplicateValue(points) ==
    \E k1 \in 1..Len(points) : \E k2 \in 1..Len(points) :
        k1 # k2 /\ points[k1].x = points[k2].x

\* the first point of value v, in the order of the list: the first of them
\* in stable sorted order
C21_FirstOfValue(points, v) ==
    points[CHOOSE k \in 1..Len(points) :
               /\ points[k].x = v
               /\ \A m \in 1..(k - 1) : points[m].x # v]

\* C21: for a list in which two or more points share a value, interpolate
\* never returns NaN (nor an infinity made by a division by zero), and a
\* target equal to a shared value gets the utility of the first of the
\* points of that value in stable sorted order.
C21_DuplicateValues ==
    Returned("interpolate") /\ C21_HasDuplicateValue(given.points) =>
        /\ returned[1] # Thrown /\ IsFinite(returned[1])
        /\ \A k1 \in 1..Len(given.points) : \A k2 \in 1..Len(given.points) :
               k1 # k2 /\ given.points[k1].x = given.points[k2].x
                       /\ given.x = given.points[k1].x
               => returned[1] = C21_FirstOfValue(given.points, given.x).y

\* C21 (first half): with a shared value the result is a finite number
C21_NeverNaN ==
    Returned("interpolate") /\ C21_HasDuplicateValue(given.points) =>
        returned[1] # Thrown /\ IsFinite(returned[1])

\* what the claim gives for a utility function and a raw value
C22_Utility(func, raw) ==
    IF func.criterionType = "qualitative"
    THEN IF raw.t = "string"
            /\ \E k \in 1..Len(func.qualitativeLevels) :
                   func.qualitativeLevels[k].label = raw.s
         THEN func.qualitativeLevels[
                  CHOOSE k \in 1..Len(func.qualitativeLevels) :
                      /\ func.qualitativeLevels[k].label = raw.s
                      /\ \A m \in 1..(k - 1) : func.qualitativeLevels[m].label # raw.s
              ].utility
         ELSE Z(0)
    ELSE IF IsNaN(parseFloat(raw)) THEN Z(0)
    ELSE IF func.mode = "formula"
    THEN IF safeEval(func.formulaString, parseFloat(raw)) = Null THEN Z(0)
         ELSE safeEval(func.formulaString, parseFloat(raw))
    ELSE IF Len(func.points) = 0 THEN Z(0)
    ELSE interpolate(parseFloat(raw), func.points)

\* C22: the utility of a cell, before clamping, is 0 without an error when the
\* raw value matches no level label, when it is no number, when the formula
\* fails, or when the table has no points; otherwise it is the matched
\* level's utility, the formula's value or the interpolated value.
C22_UtilityOrZero ==
    Returned("utility") =>
        /\ returned[1] # Thrown
        /\ returned[1] = C22_Utility(given.func, given.raw)

\* "low" was given against the levels Low, Medium, High; "abc" against a
\* formula: both got 0
C22_Witness ==
    /\ Returned("utility")
    /\ \/ /\ given.func.criterionType = "qualitative"
          /\ Len(given.func.qualitativeLevels) = 3
          /\ given.raw = StrV(sLowerCaseLow)
       \/ /\ given.func.mode = "formula"
          /\ given.func.formulaString = <<"x">>
          /\ given.raw = StrV(sNotANumber)
    /\ returned[1] = Z(0)

\* the grid has exactly one entry for each pair of a current option and a
\* current criterion, and every entry is a number from 0 to 100
C23_GridInRange(scores) ==
    /\ DOMAIN scores = Ids(options)
    /\ \A o \in DOMAIN scores :
           /\ DOMAIN scores[o] = Ids(criteria)
           /\ \A c \in DOMAIN scores[o] :
                  /\ IsFinite(scores[o][c])
                  /\ NLe(Z(0), scores[o][c]) /\ NLe(scores[o][c], Z(100))

C23_Stored(utility) ==
    IF NLt(Z(100), utility) THEN Z(100)
    ELSE IF NLt(utility, Z(0)) THEN Z(0)
    ELSE utility

\* C23 (the clamp): both calculateScores and calculateOptionValues store 100
\* for a raw result of 150 or +Infinity and 0 for -20 or -Infinity, for
\* levels, formulas and tables alike
C23_ClampExamples ==
    /\ Returned("calculateScores") =>
           /\ ~returned[1].thrown
           /\ returned[1].values[sA][sCost]
                  = C23_Stored(C22_Utility(given.func, given.raw))
    /\ Returned("calculateOptionValues") =>
           /\ ~returned[1].thrown
           /\ returned[1].values[given.optionId][given.criterionId]
                  = C23_Stored(C22_Utility(given.func,
                                           StringProperty(given.optionId, given.criterionId)))

\* each of 150, +Infinity, -20 and -Infinity has come up as a raw result
C23_ClampSeen ==
    /\ Returned("calculateScores")
    /\ C22_Utility(given.func, given.raw) \in {Z(150), PosInf, Z(-20), NegInf}

\* C25: no operation in any reachable state raises an exception; in
\* particular, after a criterion has been added, handleComparisonChange on a
\* pair involving it and generating the report complete without throwing.
\* Stated on the history variable: the operation that ran last left no
\* exception uncaught.
C25_NoOperationThrows == last.thrown = ""

\* C25, the two operations the claim names: with more criteria than matrix
\* rows, neither handleComparisonChange nor handleGenerateReport has thrown
C25_AddedCriterionIsSafe ==
    (Len(criteria) > Len(pairwiseMatrix)
        /\ last.op \in {"handleComparisonChange", "handleGenerateReport"})
    => last.thrown = ""

\* the step is reader.onload parsing the document that handleSave wrote
C24_LoadsSaved(k) ==
    /\ saved[k].document \in reading
    /\ saved[k].document \notin reading'
    /\ last'.op = "reader.onload"

\* C24: after a save (handleSave), any edits, and a load of the saved
\* document, the six input fields equal their values at save time, and the
\* weights, the consistency result and the final scores are identical to
\* those at save time.
C24_RoundTrip ==
    [][\A k \in 1..Len(saved) :
          C24_LoadsSaved(k) =>
             /\ [objective |-> objective',
                 criteria |-> criteria',
                 options |-> options',
                 pairwiseMatrix |-> pairwiseMatrix',
                 utilityFunctions |-> utilityFunctions',
                 optionValues |-> optionValues'] = saved[k].fields
             /\ weights' = saved[k].weights
             /\ consistency' = saved[k].consistency
             /\ Step5FinalScores(options', criteria', weights', utilityScores')
                    = saved[k].finalScores]_vars

\* C24, the six input fields alone: they do come back as they were saved
C24_FieldsRoundTrip ==
    [][\A k \in 1..Len(saved) :
          C24_LoadsSaved(k) =>
             [objective |-> objective',
              criteria |-> criteria',
              options |-> options',
              pairwiseMatrix |-> pairwiseMatrix',
              utilityFunctions |-> utilityFunctions',
              optionValues |-> optionValues'] = saved[k].fields]_vars

\* no two items of the list have the same id
C26_Distinct(list) ==
    \A a, b \in 1..Len(list) : list[a].id = list[b].id => a = b

\* the text is blank once trimmed, or names an item the list has
C26_Rejected(list, text) == Trim(text) = <<>> \/ Trim(text) \in Ids(list)

\* C26: whatever was added, removed or reordered, no two criteria share an id
\* and no two options share an id; addCriterion and addOption with a name
\* that is blank after trimming, or whose trimmed form is an id of the list
\* already, leave the list unchanged.
C26_UniqueIds ==
    /\ C26_Distinct(criteria)
    /\ C26_Distinct(options)
    /\ \A text \in NewCriterionTexts :
          C26_Rejected(criteria, text) => Added(criteria, text) = criteria
    /\ \A text \in NewOptionTexts :
          C26_Rejected(options, text) => Added(options, text) = options

\* C26, on the steps: addCriterion and addOption either leave their list as it
\* is or append one item whose id the list did not have
C26_AddsOnlyNewIds ==
    [][/\ last'.op = "addCriterion" /\ edits' = edits + 1 =>
            \/ criteria' = criteria
            \/ \E text \in NewCriterionTexts :
                  /\ ~C26_Rejected(criteria, text)
                  /\ criteria' = Append(criteria, Item(Trim(text)))
       /\ last'.op = "addOption" /\ edits' = edits + 1 =>
            \/ options' = options
            \/ \E text \in NewOptionTexts :
                  /\ ~C26_Rejected(options, text)
                  /\ options' = Append(options, Item(Trim(text)))]_vars

\* addCriterion has run on the mounted app with a text that is blank once
\* trimmed, or with " Risk ": the criteria are as they were
C26_Witness ==
    /\ last.op = "addCriterion"
    /\ edits = 1
    /\ criteria = InitialCriteria
    /\ \E text \in NewCriterionTexts : C26_Rejected(InitialCriteria, text)

\* the step is a call of handleComparisonChange
C27_Called == last'.op = "handleComparisonChange" /\ edits' = edits + 1

\* C27: handleComparisonChange(i, j, v) changes only the entries (i, j) and
\* (j, i) of the matrix, to v and 1/v; every other entry, the size of the
\* matrix, the criteria, the options, the utility functions and the raw option
\* values stay as they were, and the matrix it was given is not written to
\* (a call that throws leaves the matrix as it was).
C27_OnlyThePair ==
    [][C27_Called =>
          /\ criteria' = criteria
          /\ options' = options
          /\ utilityFunctions' = utilityFunctions
          /\ optionValues' = optionValues
          /\ Len(pairwiseMatrix') = Len(pairwiseMatrix)
          /\ \A a \in 1..Len(pairwiseMatrix) :
                Len(pairwiseMatrix'[a]) = Len(pairwiseMatrix[a])
          /\ IF last'.thrown = ""
             THEN \E pair \in MovedSliders : \E position \in SliderPositions :
                     \A a \in 1..Len(pairwiseMatrix) :
                        \A b \in 1..Len(pairwiseMatrix[a]) :
                           pairwiseMatrix'[a][b] =
                              IF <<a, b>> = <<pair[1] + 1, pair[2] + 1>>
                              THEN handleSliderChange(position)
                              ELSE IF <<a, b>> = <<pair[2] + 1, pair[1] + 1>>
                              THEN NDiv(Z(1), handleSliderChange(position))
                              ELSE pairwiseMatrix[a][b]
             ELSE pairwiseMatrix' = pairwiseMatrix]_vars

\* handleComparisonChange(1, 2, 1/4) has run on the mounted app: the matrix
\* holds 1/4 at (1, 2) and 4 at (2, 1), and its other entries are those of
\* the initial matrix
C27_Witness ==
    /\ last = Done("handleComparisonChange", "", "")
    /\ edits = 1
    /\ pairwiseMatrix[2][3] = Q(1, 4)
    /\ pairwiseMatrix[3][2] = Z(4)
    /\ \A a, b \in 1..4 :
          <<a, b>> \notin {<<2, 3>>, <<3, 2>>}
             => pairwiseMatrix[a][b] = InitialPairwiseMatrix[a][b]

\* 1, 2, ..., 9 and 1/2, ..., 1/9
C28_ScaleValues == {Z(k) : k \in 1..9} \cup {Q(1, k) : k \in 2..9}

\* the slider shows a whole position of its range for the entry, and moving
\* the slider to that position gives the entry
C28_RoundTrip(entry) ==
    \E position \in {sliderValue(entry)} :
        /\ position[2] = 1
        /\ position[1] \in SliderRange
        /\ handleSliderChange(position[1]) = entry

\* C28: from the initial matrix, after any sequence of slider changes
\* (positions -8..8 through handleSliderChange, applied by
\* handleComparisonChange), every matrix entry is one of 1, ..., 9 or
\* 1/2, ..., 1/9, and the slider position computed from a stored entry
\* (line 392), put through handleSliderChange, gives the same entry.
C28_EntriesOnScale ==
    \A a \in 1..Len(pairwiseMatrix) : \A b \in 1..Len(pairwiseMatrix[a]) :
        /\ pairwiseMatrix[a][b] \in C28_ScaleValues
        /\ C28_RoundTrip(pairwiseMatrix[a][b])

\* the first slider, which stood at the left end (9), has been moved twice
\* and stands at the right end (1/9)
C28_Witness ==
    /\ edits = 2
    /\ last = Done("handleComparisonChange", "", "")
    /\ pairwiseMatrix[1][2] = Q(1, 9)
    /\ pairwiseMatrix[2][1] = Z(9)

\* C29: once handleGenerateReport has set the view to 'report', no later
\* operation brings the view back to 'main': the main view is not shown after
\* a call of handleGenerateReport, effects included, nor after any step taken
\* while it was not shown.
C29_ReportIsNeverLeft ==
    [][(view # "main" \/ (last'.op = "handleGenerateReport" /\ edits' = edits + 1))
          => view' # "main"]_vars

\* the report is shown and a later operation has run: a file whose reading
\* was started on the main view has been loaded
C29_Witness ==
    /\ view = "report"
    /\ last = Done("reader.onload", "", "")
    /\ objective = "loaded"

\* the six input fields
C30_Fields ==
    <<objective, criteria, options, pairwiseMatrix, utilityFunctions, optionValues>>

\* C30: when no file is selected, or the text of the file is no valid JSON,
\* handleLoad leaves the six input fields unchanged: neither the call of
\* handleLoad nor the reader's onload for such a file changes one of them.
C30_FailedLoadChangesNothing ==
    [][(\/ last'.op = "handleLoad" /\ edits' = edits + 1
        \/ NotJSON \in reading /\ NotJSON \notin reading')
          => C30_Fields' = C30_Fields]_vars

\* the reader has finished with a file that is no JSON, after an edit of the
\* fields of the mounted app
C30_Witness ==
    /\ last = Done("reader.onload", "", "SyntaxError")
    /\ NotJSON \notin reading
    /\ C30_Fields # <<"<DESCRIPTION> Decision making to select the best option",
                      InitialCriteria, InitialOptions, InitialPairwiseMatrix,
                      InitialUtilityFunctions, <<>> >>
====
